---- MODULE Spec2Model ----
(***************************************************************************)
(* State-machine model of the smart_heating thermostat control core.       *)
(*                                                                         *)
(* Engine "learning": custom_components/smart_learning_thermostat/climate.py*)
(* Engine "smart_heating": custom_components/smart_heating/climate.py      *)
(*                                                                         *)
(* Fixed-point units (the code uses Python floats):                        *)
(*   temperatures      1/100 degree C      (20.0 C  = 2000)                *)
(*   time stamps       seconds             (dt_util.now().timestamp())     *)
(*   rates             1/10000 degree/min  (0.03 C/min = 300)              *)
(*   weather penalty   1/10000             (0.8 = 8000)                    *)
(***************************************************************************)
EXTENDS Integers, Sequences, FiniteSets, TLC

VARIABLES
    engine,     \* which climate.py is running: "learning" or "smart_heating"
    cfg,        \* the config entry as read by _load_config_options
    self,       \* the SmartThermostat object's fields, plus the service calls
                \* issued by the handler that ran last (self.calls)
    prev,       \* history: Pre(self) when the last handler was entered
    entry,      \* history: Pre(self) when that handler entered the control logic
    event,      \* history: the handler (or environment step) taken last
    last_call,  \* history: the last service call issued before that handler
    started,    \* async_added_to_hass has run (listeners and timer registered)
    now,        \* dt_util.now().timestamp()
    ticked,     \* the 1-minute timer has fired since the clock last advanced
    sched,      \* state of the schedule entity
    next_event, \* the schedule entity's next_event attribute
    outside,    \* reading of the outdoor sensor / weather entity
    switch,     \* state of the heater switch entity
    pending     \* the invocations suspended at "await ...async_call(...)"

vars == <<engine, cfg, self, prev, entry, event, last_call, started, now, ticked, sched,
          next_event, outside, switch, pending>>

env == <<now, ticked, sched, next_event, outside>>

-----------------------------------------------------------------------------
(* Python values *)

\* Python None in a numeric (Optional[float]) field
None == -999999

\* Python None in a string field (_last_schedule_state)
NoneStr == "None"

\* bool(x) of an Optional[float]: None and 0.0 are falsy
Truthy(x) == x # None /\ x # 0

Min(a, b) == IF a <= b THEN a ELSE b
Max(a, b) == IF a >= b THEN a ELSE b

STATE_ON == "on"
STATE_OFF == "off"
STATE_UNAVAILABLE == "unavailable"
STATE_UNKNOWN == "unknown"
HVAC_HEAT == "heat"
HVAC_OFF == "off"

-----------------------------------------------------------------------------
(* Program constants: smart_learning_thermostat/const.py *)

DEFAULT_HEAT_UP_RATE == 300
DEFAULT_HEAT_LOSS_RATE == -200
DEFAULT_OVERSHOOT == 0
DEFAULT_HYSTERESIS == 20
DEFAULT_MAX_ON_TIME == 300
DEFAULT_MAX_PREHEAT_TIME == 180
DEFAULT_MIN_BURN_TIME == 10
DEFAULT_COMFORT_TEMP == 2000
DEFAULT_SETBACK_TEMP == 1500

\* timedelta(minutes=1) of async_track_time_interval, in seconds
TickInterval == 60

\* default of _outside_ref_temp (10.0 C)
DEFAULT_OUTSIDE_REF == 1000

-----------------------------------------------------------------------------
(* Bounds of the model *)

\* smart_heating/const.py and the literals of smart_heating/climate.py
SH_DEFAULT_HYSTERESIS == 20
SH_DEFAULT_HEAT_UP_RATE == 500
SH_DEFAULT_OVERSHOOT == 0
SH_DEFAULT_TARGET == 2000
SH_COMFORT_TARGET == 2000
SH_MAX_PREHEAT == 180
SH_MIN_BURN == 10
SH_MIN_DELTA_TEMP == 20
SH_PEAK_WINDOW == 1800
SH_MAX_OVERSHOOT == 100
SH_MAX_ON_TIME == 300 * 60

\* the clock runs for MaxTicks timer intervals after start-up
MaxTicks == 1

\* the watchdog specification runs for max_on_time plus WatchdogSlack intervals
WatchdogSlack == 3

\* the smart_heating specification runs for SHMaxTicks timer intervals
SHMaxTicks == 1

-----------------------------------------------------------------------------
(* Thresholds written as literals in climate.py *)

\* "if delta_temp < 0.2" of both learners
MIN_DELTA_TEMP == 20

\* "if duration_mins < 30" of _finalize_heat_loss_learning
MIN_LOSS_MINUTES == 30

\* min(0.8, penalty_factor)
MAX_PENALTY == 8000

-----------------------------------------------------------------------------
(* Engine "learning": smart_learning_thermostat/climate.py *)

\* SmartThermostat.__init__: the object's fields after construction under
\* config c
init_object(c) ==
    [ hvac_mode |-> HVAC_OFF,
      target_temp |-> c.setback_temp,
      current_temp |-> None,
      is_active_heating |-> FALSE,
      manual_mode |-> FALSE,
      last_schedule_state |-> NoneStr,
      preheat_latch |-> FALSE,
      preset_mode |-> "none",
      heat_up_rate |-> DEFAULT_HEAT_UP_RATE,
      heat_loss_rate |-> DEFAULT_HEAT_LOSS_RATE,
      overshoot_temp |-> DEFAULT_OVERSHOOT,
      outside_ref_temp |-> DEFAULT_OUTSIDE_REF,
      last_on_time |-> None,
      heat_start_temp |-> None,
      last_off_time |-> None,
      peak_temp_observed |-> None,
      peak_temp_time |-> None,
      heat_loss_tracking_active |-> FALSE,
      calls |-> <<>> ]

\* _get_outside_temp: None without a configured sensor or without a numeric
\* reading; h.outside is the entity's state (None when unavailable)
get_outside_temp(h) ==
    IF ~cfg.outside_sensor_id THEN None ELSE h.outside

\* _get_next_schedule_start: the parsed next_event attribute, or None
get_next_schedule_start(h) ==
    IF ~cfg.schedule_entity_id THEN None
    ELSE IF h.sched = NoneStr THEN None
    ELSE h.next_event

\* _finalize_heat_loss_learning
finalize_heat_loss_learning(s, h) ==
    IF ~Truthy(s.peak_temp_observed) \/ ~Truthy(s.peak_temp_time)
          \/ ~Truthy(s.current_temp) THEN s
    ELSE IF ~s.heat_loss_tracking_active THEN s
    ELSE LET duration_s == h.now - s.peak_temp_time
             delta_temp == s.peak_temp_observed - s.current_temp
         IN  IF duration_s < MIN_LOSS_MINUTES * 60 THEN s
             ELSE IF delta_temp < MIN_DELTA_TEMP THEN s
             ELSE LET calculated_rate == (delta_temp * 6000) \div duration_s
                      new_rate == (s.heat_loss_rate * 8 + calculated_rate * 2) \div 10
                  IN  [s EXCEPT !.heat_loss_rate = Max(10, Min(5000, new_rate))]

\* mutant of learn_heat_up_rate: the blended rate is stored without the clamp
learn_heat_up_rate_unclamped(s, h) ==
    IF ~Truthy(s.last_on_time) \/ ~Truthy(s.heat_start_temp)
          \/ ~Truthy(s.current_temp) THEN s
    ELSE LET duration_s == h.now - s.last_on_time
             delta_temp == s.current_temp - s.heat_start_temp
         IN  IF duration_s < cfg.min_burn_time * 60 THEN s
             ELSE IF delta_temp < MIN_DELTA_TEMP THEN s
             ELSE [s EXCEPT !.heat_up_rate =
                      (@ * 8 + ((delta_temp * 6000) \div duration_s) * 2) \div 10]

\* mutant of learn_heat_up_rate: the reference temperature follows the
\* outdoor reading before the cycle is filtered
learn_heat_up_rate_ref_first(s, h) ==
    LET current_outside == get_outside_temp(h)
        s0 == [s EXCEPT !.outside_ref_temp =
                           IF current_outside # None
                           THEN (@ * 8 + current_outside * 2) \div 10
                           ELSE @]
    IN  IF ~Truthy(s.last_on_time) \/ ~Truthy(s.heat_start_temp)
              \/ ~Truthy(s.current_temp) THEN s0
        ELSE LET duration_s == h.now - s.last_on_time
                 delta_temp == s.current_temp - s.heat_start_temp
             IN  IF duration_s < cfg.min_burn_time * 60 THEN s0
                 ELSE IF delta_temp < MIN_DELTA_TEMP THEN s0
                 ELSE LET calculated_rate == (delta_temp * 6000) \div duration_s
                          new_rate == (s.heat_up_rate * 8 + calculated_rate * 2) \div 10
                      IN  [s0 EXCEPT
                             !.heat_up_rate = Max(100, Min(10000, new_rate))]

\* _learn_heat_up_rate
learn_heat_up_rate(s, h) ==
    IF ~Truthy(s.last_on_time) \/ ~Truthy(s.heat_start_temp)
          \/ ~Truthy(s.current_temp) THEN s
    ELSE LET duration_s == h.now - s.last_on_time
             delta_temp == s.current_temp - s.heat_start_temp
         IN  IF duration_s < cfg.min_burn_time * 60 THEN s
             ELSE IF delta_temp < MIN_DELTA_TEMP THEN s
             ELSE LET calculated_rate == (delta_temp * 6000) \div duration_s
                      new_rate == (s.heat_up_rate * 8 + calculated_rate * 2) \div 10
                      current_outside == get_outside_temp(h)
                  IN  [s EXCEPT
                         !.heat_up_rate = Max(100, Min(10000, new_rate)),
                         !.outside_ref_temp =
                             IF current_outside # None
                             THEN (@ * 8 + current_outside * 2) \div 10
                             ELSE @]

\* mutant of update_off_cycle_stats: tracking stays armed after the cap
update_off_cycle_stats_keeps_tracking(s, h) ==
    IF ~Truthy(s.peak_temp_observed) \/ ~Truthy(s.current_temp) THEN s
    ELSE LET s1 == IF s.current_temp > s.peak_temp_observed
                   THEN [s EXCEPT !.peak_temp_observed = s.current_temp,
                                  !.peak_temp_time = h.now]
                   ELSE s
         IN  IF s1.heat_loss_tracking_active
                  /\ (h.now - s1.peak_temp_time) >= cfg.max_heat_loss_time * 60
             THEN finalize_heat_loss_learning(s1, h)
             ELSE s1

\* _update_off_cycle_stats
update_off_cycle_stats(s, h) ==
    IF ~Truthy(s.peak_temp_observed) \/ ~Truthy(s.current_temp) THEN s
    ELSE LET s1 == IF s.current_temp > s.peak_temp_observed
                   THEN [s EXCEPT !.peak_temp_observed = s.current_temp,
                                  !.peak_temp_time = h.now]
                   ELSE s
         IN  IF s1.heat_loss_tracking_active
                  /\ (h.now - s1.peak_temp_time) >= cfg.max_heat_loss_time * 60
             THEN [finalize_heat_loss_learning(s1, h)
                      EXCEPT !.heat_loss_tracking_active = FALSE]
             ELSE s1

\* _set_boiler, the turn-on branch (lines 384-392)
boiler_turn_on(s, h) ==
    LET s1 == IF cfg.enable_learning THEN finalize_heat_loss_learning(s, h) ELSE s
    IN  [s1 EXCEPT !.is_active_heating = TRUE,
                   !.last_on_time = h.now,
                   !.heat_start_temp = s.current_temp,
                   !.calls = Append(@, "turn_on")]

\* mutant of boiler_turn_off: the cycle is learned and the cooling phase
\* tracked whatever enable_learning says
boiler_turn_off_always_learns(s, h) ==
    LET s1 == [s EXCEPT !.is_active_heating = FALSE,
                        !.calls = Append(@, "turn_off")]
    IN  [learn_heat_up_rate(s1, h) EXCEPT
            !.last_off_time = h.now,
            !.peak_temp_observed = s.current_temp,
            !.peak_temp_time = h.now,
            !.heat_loss_tracking_active = TRUE]

\* _set_boiler, the turn-off branch (lines 394-404)
boiler_turn_off(s, h) ==
    LET s1 == [s EXCEPT !.is_active_heating = FALSE,
                        !.calls = Append(@, "turn_off")]
    IN  IF cfg.enable_learning
        THEN [learn_heat_up_rate(s1, h) EXCEPT
                 !.last_off_time = h.now,
                 !.peak_temp_observed = s.current_temp,
                 !.peak_temp_time = h.now,
                 !.heat_loss_tracking_active = TRUE]
        ELSE s1

\* mutant of set_boiler: the commands are issued whatever the boiler's state
set_boiler_unguarded(s, turn_on, h) ==
    IF turn_on THEN boiler_turn_on(s, h) ELSE boiler_turn_off(s, h)

\* _set_boiler
set_boiler(s, turn_on, h) ==
    IF ~cfg.heater_entity_id THEN s
    ELSE IF turn_on /\ ~s.is_active_heating THEN boiler_turn_on(s, h)
    ELSE IF ~turn_on /\ s.is_active_heating THEN boiler_turn_off(s, h)
    ELSE s

\* mutant of detect_schedule_change: a schedule change leaves manual_mode
detect_schedule_change_keeps_manual(s, h) ==
    IF ~cfg.schedule_entity_id THEN s
    ELSE LET current_state == IF h.sched = NoneStr THEN STATE_OFF ELSE h.sched
             changed == s.last_schedule_state # NoneStr
                          /\ current_state # s.last_schedule_state
         IN  [s EXCEPT
                !.preheat_latch =
                    IF changed /\ current_state = STATE_ON THEN FALSE ELSE @,
                !.last_schedule_state = current_state]

\* _run_control_logic step 1 (lines 293-304): detect a schedule change
detect_schedule_change(s, h) ==
    IF ~cfg.schedule_entity_id THEN s
    ELSE LET current_state == IF h.sched = NoneStr THEN STATE_OFF ELSE h.sched
             changed == s.last_schedule_state # NoneStr
                          /\ current_state # s.last_schedule_state
         IN  [s EXCEPT
                !.manual_mode = IF changed THEN FALSE ELSE @,
                !.preheat_latch =
                    IF changed /\ current_state = STATE_ON THEN FALSE ELSE @,
                !.last_schedule_state = current_state]

\* mutant of adjusted_rate: the penalty is not clamped to 80%
adjusted_rate_unclamped(s, h) ==
    LET current_outside == get_outside_temp(h)
    IN  IF current_outside # None /\ cfg.weather_sensitivity > 0
        THEN LET delta_outside == s.outside_ref_temp - current_outside
             IN  IF delta_outside > 0
                 THEN (s.heat_up_rate
                         * (10000 - delta_outside * cfg.weather_sensitivity))
                      \div 10000
                 ELSE s.heat_up_rate
        ELSE s.heat_up_rate

\* lines 327-346: the heat-up rate after the weather penalty
adjusted_rate(s, h) ==
    LET current_outside == get_outside_temp(h)
    IN  IF current_outside # None /\ cfg.weather_sensitivity > 0
        THEN LET delta_outside == s.outside_ref_temp - current_outside
             IN  IF delta_outside > 0
                 THEN LET penalty_factor ==
                              Min(MAX_PENALTY, delta_outside * cfg.weather_sensitivity)
                      IN  (s.heat_up_rate * (10000 - penalty_factor)) \div 10000
                 ELSE s.heat_up_rate
        ELSE s.heat_up_rate

\* mutant of seconds_needed: the cap of line 349 is not applied
seconds_needed_uncapped(s, h) ==
    LET diff == cfg.comfort_temp - s.current_temp
    IN  (diff * 6000) \div adjusted_rate(s, h)

\* lines 348-349: minutes_needed, in whole seconds (now and next_start are
\* whole seconds, so flooring does not change the comparison of line 351)
seconds_needed(s, h) ==
    LET diff == cfg.comfort_temp - s.current_temp
    IN  Min((diff * 6000) \div adjusted_rate(s, h), cfg.max_preheat_time * 60)

\* mutant of preheat_test: the window test is repeated although latched
preheat_test_unlatched(s, h) ==
    LET next_start == get_next_schedule_start(h)
    IN  IF next_start # None
             /\ cfg.comfort_temp - s.current_temp > 0
             /\ h.now >= next_start - seconds_needed(s, h)
        THEN [should_preheat |-> TRUE, latch |-> TRUE]
        ELSE [should_preheat |-> FALSE, latch |-> FALSE]

\* mutant of preheat_test: the window opens only strictly after its start
preheat_test_strict(s, h) ==
    LET next_start == get_next_schedule_start(h)
    IN  IF s.preheat_latch THEN [should_preheat |-> TRUE, latch |-> TRUE]
        ELSE IF next_start # None
                  /\ cfg.comfort_temp - s.current_temp > 0
                  /\ h.now > next_start - seconds_needed(s, h)
        THEN [should_preheat |-> TRUE, latch |-> TRUE]
        ELSE [should_preheat |-> FALSE, latch |-> FALSE]

\* mutant of preheat_test: the window is tested without a next start
preheat_test_without_next(s, h) ==
    LET next_start == get_next_schedule_start(h)
    IN  IF s.preheat_latch THEN [should_preheat |-> TRUE, latch |-> TRUE]
        ELSE IF cfg.comfort_temp - s.current_temp > 0
                  /\ h.now >= next_start - seconds_needed(s, h)
        THEN [should_preheat |-> TRUE, latch |-> TRUE]
        ELSE [should_preheat |-> FALSE, latch |-> FALSE]

\* lines 317-354: should_preheat and the latch after the preheat test
preheat_test(s, h) ==
    LET next_start == get_next_schedule_start(h)
    IN  IF s.preheat_latch THEN [should_preheat |-> TRUE, latch |-> TRUE]
        ELSE IF next_start # None
                  /\ cfg.comfort_temp - s.current_temp > 0
                  /\ h.now >= next_start - seconds_needed(s, h)
        THEN [should_preheat |-> TRUE, latch |-> TRUE]
        ELSE [should_preheat |-> FALSE, latch |-> FALSE]

\* mutant of resolve_target: the auto target is computed in manual mode too
resolve_target_ignores_manual(s, h) ==
    IF cfg.schedule_entity_id /\ s.last_schedule_state = STATE_ON
    THEN [s EXCEPT !.target_temp = cfg.comfort_temp, !.preset_mode = "none"]
    ELSE IF cfg.enable_preheat /\ cfg.schedule_entity_id
    THEN LET p == preheat_test(s, h)
         IN  [s EXCEPT
                !.preheat_latch = p.latch,
                !.target_temp = IF p.should_preheat THEN cfg.comfort_temp
                                ELSE cfg.setback_temp,
                !.preset_mode = IF p.should_preheat THEN "preheat" ELSE "none"]
    ELSE [s EXCEPT !.target_temp = cfg.setback_temp, !.preset_mode = "none"]

\* mutant of resolve_target: without schedule or preheat the auto target is
\* the comfort temperature
resolve_target_defaults_to_comfort(s, h) ==
    IF s.manual_mode THEN s
    ELSE IF cfg.schedule_entity_id /\ s.last_schedule_state = STATE_ON
    THEN [s EXCEPT !.target_temp = cfg.comfort_temp, !.preset_mode = "none"]
    ELSE IF cfg.enable_preheat /\ cfg.schedule_entity_id
    THEN LET p == preheat_test(s, h)
         IN  [s EXCEPT
                !.preheat_latch = p.latch,
                !.target_temp = IF p.should_preheat THEN cfg.comfort_temp
                                ELSE cfg.setback_temp,
                !.preset_mode = IF p.should_preheat THEN "preheat" ELSE "none"]
    ELSE [s EXCEPT !.target_temp = cfg.comfort_temp, !.preset_mode = "none"]

\* _run_control_logic step 2 (lines 306-360): the "auto" target
resolve_target(s, h) ==
    IF s.manual_mode THEN s
    ELSE IF cfg.schedule_entity_id /\ s.last_schedule_state = STATE_ON
    THEN [s EXCEPT !.target_temp = cfg.comfort_temp, !.preset_mode = "none"]
    ELSE IF cfg.enable_preheat /\ cfg.schedule_entity_id
    THEN LET p == preheat_test(s, h)
         IN  [s EXCEPT
                !.preheat_latch = p.latch,
                !.target_temp = IF p.should_preheat THEN cfg.comfort_temp
                                ELSE cfg.setback_temp,
                !.preset_mode = IF p.should_preheat THEN "preheat" ELSE "none"]
    ELSE [s EXCEPT !.target_temp = cfg.setback_temp, !.preset_mode = "none"]

\* mutant of off_point: the overshoot is not subtracted
off_point_without_overshoot(s) == s.target_temp

\* line 363-364: the switch-off point
off_point(s) ==
    s.target_temp - (IF cfg.enable_overshoot THEN s.overshoot_temp ELSE 0)

\* mutant of on_point: strictly below the hysteresis band
on_point_strict(s) == s.target_temp - cfg.hysteresis - 1

\* line 365: the switch-on point
on_point(s) == s.target_temp - cfg.hysteresis

\* mutant of watchdog_expired: max_on_time converted to seconds a second time
watchdog_expired_rescaled(s, h) ==
    Truthy(s.last_on_time) /\ (h.now - s.last_on_time) > cfg.max_on_time * 60

\* line 371: the watchdog test
watchdog_expired(s, h) ==
    Truthy(s.last_on_time) /\ (h.now - s.last_on_time) > cfg.max_on_time

\* _run_control_logic step 3 (lines 362-377): boiler control
boiler_control(s, h) ==
    IF s.is_active_heating
    THEN IF s.current_temp >= off_point(s) THEN set_boiler(s, FALSE, h)
         ELSE IF watchdog_expired(s, h) THEN set_boiler(s, FALSE, h)
         ELSE s
    ELSE IF s.current_temp <= on_point(s) THEN set_boiler(s, TRUE, h)
         ELSE s

\* mutant of short_circuit: the missing temperature is not tested
short_circuit_mode_only(s) == s.hvac_mode = HVAC_OFF

\* line 287: the short-circuit test
short_circuit(s) == s.current_temp = None \/ s.hvac_mode = HVAC_OFF

\* mutant of run_control_logic: the target is resolved before the
\* short-circuit test
run_control_logic_resolves_first(s, h) ==
    LET s1 == resolve_target(detect_schedule_change(s, h), h)
    IN  IF short_circuit(s) THEN set_boiler(s1, FALSE, h)
        ELSE boiler_control(s1, h)

\* _run_control_logic
run_control_logic(s, h) ==
    IF short_circuit(s) THEN set_boiler(s, FALSE, h)
    ELSE boiler_control(resolve_target(detect_schedule_change(s, h), h), h)

\* mutant of set_temperature_entry: the override flag is not raised
set_temperature_entry_unflagged(s, temp) == [s EXCEPT !.target_temp = temp]

\* async_set_temperature, lines 245-248: up to the control logic
set_temperature_entry(s, temp) ==
    [s EXCEPT !.target_temp = temp, !.manual_mode = TRUE]

\* async_set_temperature
async_set_temperature(s, temp, h) ==
    run_control_logic(set_temperature_entry(s, temp), h)

\* mutant of set_hvac_mode_entry: the boiler is commanded off without
\* _set_boiler's bookkeeping
set_hvac_mode_entry_flag_kept(s, hvac_mode, h) ==
    LET s1 == [s EXCEPT !.hvac_mode = hvac_mode]
    IN  IF hvac_mode = HVAC_OFF /\ s1.is_active_heating
        THEN [s1 EXCEPT !.calls = Append(@, "turn_off")] ELSE s1

\* async_set_hvac_mode, lines 252-255: up to the control logic
set_hvac_mode_entry(s, hvac_mode, h) ==
    LET s1 == [s EXCEPT !.hvac_mode = hvac_mode]
    IN  IF hvac_mode = HVAC_OFF THEN set_boiler(s1, FALSE, h) ELSE s1

\* async_set_hvac_mode
async_set_hvac_mode(s, hvac_mode, h) ==
    run_control_logic(set_hvac_mode_entry(s, hvac_mode, h), h)

\* a sensor event's new_state is [state, value]; state "number" stands for a
\* string that float() parses, to value
sensor_rejected(new_state) ==
    \/ new_state.state \in {"removed", STATE_UNAVAILABLE, STATE_UNKNOWN}
    \/ new_state.state # "number"

\* _async_sensor_changed, lines 270-273: up to the control logic
sensor_changed_entry(s, new_state, h) ==
    LET s1 == [s EXCEPT !.current_temp = new_state.value]
    IN  IF cfg.enable_learning /\ ~s1.is_active_heating
        THEN update_off_cycle_stats(s1, h) ELSE s1

\* mutant of async_sensor_changed: a rejected sample still runs the control
\* logic
async_sensor_changed_always_runs(s, new_state, h) ==
    IF sensor_rejected(new_state) THEN run_control_logic(s, h)
    ELSE run_control_logic(sensor_changed_entry(s, new_state, h), h)

\* _async_sensor_changed
async_sensor_changed(s, new_state, h) ==
    IF sensor_rejected(new_state) THEN s
    ELSE run_control_logic(sensor_changed_entry(s, new_state, h), h)

\* mutant of added_to_hass_entry: the heater switch is not read
added_to_hass_entry_unsynced(s, last_state, switch_state) ==
    IF last_state.present
    THEN [s EXCEPT
            !.hvac_mode = IF last_state.state \in {HVAC_HEAT, HVAC_OFF}
                          THEN last_state.state ELSE HVAC_OFF,
            !.target_temp = IF last_state.target_temp # None
                            THEN last_state.target_temp
                            ELSE cfg.setback_temp,
            !.heat_up_rate = last_state.learned_heat_up_rate,
            !.heat_loss_rate = last_state.learned_heat_loss_rate,
            !.overshoot_temp = last_state.learned_overshoot,
            !.outside_ref_temp = last_state.learned_outside_ref_temp]
    ELSE s

\* async_added_to_hass, lines 146-163: restore last_state and sync with the
\* heater switch
added_to_hass_entry(s, last_state, switch_state) ==
    LET s1 == IF last_state.present
              THEN [s EXCEPT
                      !.hvac_mode = IF last_state.state \in {HVAC_HEAT, HVAC_OFF}
                                    THEN last_state.state ELSE HVAC_OFF,
                      !.target_temp = IF last_state.target_temp # None
                                      THEN last_state.target_temp
                                      ELSE cfg.setback_temp,
                      !.heat_up_rate = last_state.learned_heat_up_rate,
                      !.heat_loss_rate = last_state.learned_heat_loss_rate,
                      !.overshoot_temp = last_state.learned_overshoot,
                      !.outside_ref_temp = last_state.learned_outside_ref_temp]
              ELSE s
    IN  IF cfg.heater_entity_id
        THEN [s1 EXCEPT !.is_active_heating = (switch_state = STATE_ON)]
        ELSE s1

\* async_added_to_hass
async_added_to_hass(s, last_state, switch_state, h) ==
    run_control_logic(added_to_hass_entry(s, last_state, switch_state), h)

\* mutant of calculate_next_fire_time: the estimate latches preheat as soon
\* as there is a deficit before a next start
calculate_next_fire_time_latching(s, h) ==
    LET next_sched == get_next_schedule_start(h)
        current == IF s.current_temp # None THEN s.current_temp
                   ELSE cfg.setback_temp
    IN  IF next_sched # None /\ cfg.comfort_temp - current > 0
        THEN [self |-> [s EXCEPT !.preheat_latch = TRUE], result |-> h.now]
        ELSE [self |-> s, result |-> next_sched]

\* _calculate_next_fire_time: the object after the call and the value
\* returned, a time in seconds or None (lines 509-517 repeat the rate
\* adjustment of lines 327-344)
calculate_next_fire_time(s, h) ==
    LET next_sched == get_next_schedule_start(h)
        current == IF s.current_temp # None THEN s.current_temp
                   ELSE cfg.setback_temp
        diff == cfg.comfort_temp - current
        minutes_needed ==
            Min((diff * 6000) \div adjusted_rate(s, h), cfg.max_preheat_time * 60)
        fire_time == next_sched - minutes_needed
    IN  [self |-> s,
         result |->
            IF s.is_active_heating THEN h.now
            ELSE IF cfg.schedule_entity_id /\ h.sched = STATE_ON THEN h.now
            ELSE IF next_sched = None THEN None
            ELSE IF ~cfg.enable_preheat THEN next_sched
            ELSE IF diff <= 0 THEN next_sched
            ELSE IF fire_time < h.now THEN h.now
            ELSE fire_time]

\* extra_state_attributes: the object after the read and the attributes
extra_state_attributes(s, h) ==
    LET r == calculate_next_fire_time(s, h)
    IN  [self |-> r.self,
         attributes |->
            [learned_heat_up_rate |-> s.heat_up_rate,
             learned_heat_loss_rate |-> s.heat_loss_rate,
             learned_overshoot |-> s.overshoot_temp,
             learned_outside_ref_temp |-> s.outside_ref_temp,
             weather_sensitivity |-> cfg.weather_sensitivity,
             boiler_active |-> s.is_active_heating,
             hysteresis |-> cfg.hysteresis,
             manual_mode |-> s.manual_mode,
             preheat_latch |-> s.preheat_latch,
             next_fire_timestamp |-> r.result]]

-----------------------------------------------------------------------------
(* Engine "smart_heating": smart_heating/climate.py.  The operators take   *)
(* the options c they run under, since async_update_options replaces them  *)
(* on the live object.                                                     *)

\* __init__
sh_init_object ==
    [ hvac_mode |-> HVAC_OFF,
      target_temp |-> SH_DEFAULT_TARGET,
      current_temp |-> None,
      is_active_heating |-> FALSE,
      preset_mode |-> "none",
      heat_up_rate |-> SH_DEFAULT_HEAT_UP_RATE,
      overshoot_temp |-> SH_DEFAULT_OVERSHOOT,
      last_on_time |-> None,
      heat_start_temp |-> None,
      last_off_time |-> None,
      peak_tracking_start_temp |-> None,
      peak_temp_observed |-> None,
      calls |-> <<>> ]

\* _learn_heat_up_rate
sh_learn_heat_up_rate(s, h) ==
    IF ~Truthy(s.last_on_time) \/ ~Truthy(s.heat_start_temp) THEN s
    ELSE IF h.now - s.last_on_time < SH_MIN_BURN * 60 THEN s
    ELSE IF s.current_temp - s.heat_start_temp < SH_MIN_DELTA_TEMP THEN s
    ELSE LET calculated_rate ==
                 ((s.current_temp - s.heat_start_temp) * 100 * 60)
                     \div (h.now - s.last_on_time)
             new_rate == (s.heat_up_rate * 8 + calculated_rate * 2) \div 10
         IN  [s EXCEPT !.heat_up_rate = Max(100, Min(10000, new_rate))]

\* _track_overshoot_peak
sh_track_overshoot_peak(s, h) ==
    LET s1 == IF s.current_temp > s.peak_temp_observed
              THEN [s EXCEPT !.peak_temp_observed = s.current_temp] ELSE s
        overshoot == s1.peak_temp_observed - s1.peak_tracking_start_temp
        new_overshoot == (s1.overshoot_temp * 8 + overshoot * 2) \div 10
    IN  IF h.now - s1.last_off_time > SH_PEAK_WINDOW
        THEN [s1 EXCEPT
                !.overshoot_temp =
                    IF overshoot > 0
                    THEN Max(0, Min(SH_MAX_OVERSHOOT, new_overshoot)) ELSE @,
                !.peak_tracking_start_temp = None]
        ELSE s1

\* _set_boiler
sh_set_boiler(c, s, turn_on, h) ==
    IF turn_on /\ ~s.is_active_heating
    THEN [s EXCEPT !.is_active_heating = TRUE,
                   !.last_on_time = h.now,
                   !.heat_start_temp = s.current_temp,
                   !.peak_tracking_start_temp = None,
                   !.calls = Append(@, "turn_on")]
    ELSE IF ~turn_on /\ s.is_active_heating
    THEN LET s1 == [s EXCEPT !.is_active_heating = FALSE,
                             !.last_off_time = h.now,
                             !.calls = Append(@, "turn_off")]
         IN  IF c.enable_learning
             THEN [sh_learn_heat_up_rate(s1, h) EXCEPT
                      !.peak_tracking_start_temp = s.current_temp,
                      !.peak_temp_observed = s.current_temp]
             ELSE s1
    ELSE s

\* _get_next_schedule_start
sh_get_next_schedule_start(c, h) ==
    IF ~c.schedule_entity_id THEN None
    ELSE IF Truthy(h.next_event) THEN h.next_event ELSE None

\* _run_control_logic lines 239-259: preheat_active
sh_preheat_active(c, s, h) ==
    /\ c.enable_preheat
    /\ c.schedule_entity_id
    /\ h.sched = STATE_OFF
    /\ sh_get_next_schedule_start(c, h) # None
    /\ SH_COMFORT_TARGET - s.current_temp > 0
    /\ h.now >= sh_get_next_schedule_start(c, h)
                  - Min(((SH_COMFORT_TARGET - s.current_temp) * 6000)
                            \div s.heat_up_rate,
                        SH_MAX_PREHEAT * 60)

\* lines 267-268: effective_cutoff
sh_effective_cutoff(c, s, target) ==
    target - (IF c.enable_overshoot THEN s.overshoot_temp ELSE 0)

\* line 282: on_point
sh_on_point(target) == target - SH_DEFAULT_HYSTERESIS

\* _run_control_logic lines 270-285
sh_boiler_control(c, s, target, h) ==
    IF s.is_active_heating
    THEN IF s.current_temp >= sh_effective_cutoff(c, s, target)
         THEN sh_set_boiler(c, s, FALSE, h)
         ELSE IF h.now - s.last_on_time > SH_MAX_ON_TIME
         THEN sh_set_boiler(c, s, FALSE, h)
         ELSE s
    ELSE IF s.current_temp <= sh_on_point(target)
         THEN sh_set_boiler(c, s, TRUE, h)
         ELSE s

\* _run_control_logic
sh_run_control_logic(c, s, h) ==
    IF s.current_temp = None \/ s.hvac_mode = HVAC_OFF
    THEN sh_set_boiler(c, s, FALSE, h)
    ELSE LET preheat_active == sh_preheat_active(c, s, h)
             target == IF preheat_active THEN SH_COMFORT_TARGET
                       ELSE s.target_temp
         IN  sh_boiler_control(c,
                 [s EXCEPT !.preset_mode =
                     IF preheat_active THEN "preheat" ELSE "none"],
                 target, h)

\* async_set_temperature up to the call of _run_control_logic
sh_set_temperature_entry(s, temp) == [s EXCEPT !.target_temp = temp]

\* async_set_temperature
sh_async_set_temperature(c, s, temp, h) ==
    sh_run_control_logic(c, sh_set_temperature_entry(s, temp), h)

\* async_set_hvac_mode up to the call of _run_control_logic
sh_set_hvac_mode_entry(c, s, hvac_mode, h) ==
    LET s1 == [s EXCEPT !.hvac_mode = hvac_mode]
    IN  IF hvac_mode = HVAC_OFF THEN sh_set_boiler(c, s1, FALSE, h) ELSE s1

\* async_set_hvac_mode
sh_async_set_hvac_mode(c, s, hvac_mode, h) ==
    sh_run_control_logic(c, sh_set_hvac_mode_entry(c, s, hvac_mode, h), h)

\* async_set_preset_mode: no control logic runs
async_set_preset_mode(s, preset_mode) ==
    IF preset_mode \in {"none", "preheat"}
    THEN [s EXCEPT !.preset_mode = preset_mode] ELSE s

\* _async_sensor_changed: new_state is None, unavailable or unknown (line
\* 206), or float() raises ValueError (line 216)
sh_sensor_rejected(new_state) == new_state.state # "number"

\* _async_sensor_changed up to the call of _run_control_logic
sh_sensor_changed_entry(c, s, new_state, h) ==
    LET s1 == [s EXCEPT !.current_temp = new_state.value]
    IN  IF c.enable_learning /\ ~s1.is_active_heating
             /\ s1.peak_tracking_start_temp # None
        THEN sh_track_overshoot_peak(s1, h)
        ELSE s1

\* _async_sensor_changed
sh_async_sensor_changed(c, s, new_state, h) ==
    IF sh_sensor_rejected(new_state) THEN s
    ELSE sh_run_control_logic(c, sh_sensor_changed_entry(c, s, new_state, h), h)

\* async_added_to_hass: the restore; no control logic runs
sh_async_added_to_hass(s, last_state) ==
    IF last_state.present
    THEN [s EXCEPT
            !.hvac_mode = IF last_state.state \in {HVAC_HEAT, HVAC_OFF}
                          THEN last_state.state ELSE HVAC_OFF,
            !.target_temp = IF last_state.target_temp # None
                            THEN last_state.target_temp
                            ELSE SH_DEFAULT_TARGET,
            !.heat_up_rate = last_state.learned_heat_up_rate,
            !.overshoot_temp = last_state.learned_overshoot]
    ELSE s

\* async_update_options: the toggles of the new options
sh_update_options(c, options) ==
    [c EXCEPT !.enable_preheat = options.enable_preheat,
              !.enable_overshoot = options.enable_overshoot,
              !.enable_learning = options.enable_learning]

-----------------------------------------------------------------------------
(* Inputs *)

\* numeric temperature samples
Temps == {1480, 1990, 2000}

\* states of the temperature sensor entity that are not numbers: no new
\* state, "unavailable", "unknown", and a string float() rejects
BadSensorStates == {"removed", STATE_UNAVAILABLE, STATE_UNKNOWN, "garbage"}

\* the new_state of a sensor event
SensorStates(temps) ==
    { [state |-> b, value |-> None] : b \in BadSensorStates }
    \cup { [state |-> "number", value |-> v] : v \in temps }

\* values passed to set_temperature
ManualTemps == {2100}

\* values passed to set_preset_mode: the two presets and one not offered
PresetModes == {"none", "preheat", "boost"}

\* states of the schedule entity
SchedStates == {STATE_ON, STATE_OFF}

\* next_event attribute of the schedule entity
NextEvents == {None, TickInterval * 12}

\* outdoor readings
OutsideStates == {None, 0}

\* the restored last state: absent, or what the entity had published (state =
\* hvac mode, learned_* attributes; no attribute named "target_temp" is ever
\* published, extra_state_attributes lines 209-221)
LastStates ==
    { [present |-> FALSE, state |-> HVAC_OFF, target_temp |-> None,
       learned_heat_up_rate |-> DEFAULT_HEAT_UP_RATE,
       learned_heat_loss_rate |-> DEFAULT_HEAT_LOSS_RATE,
       learned_overshoot |-> DEFAULT_OVERSHOOT,
       learned_outside_ref_temp |-> DEFAULT_OUTSIDE_REF] }
    \cup
    { [present |-> TRUE, state |-> st, target_temp |-> None,
       learned_heat_up_rate |-> DEFAULT_HEAT_UP_RATE,
       learned_heat_loss_rate |-> DEFAULT_HEAT_LOSS_RATE,
       learned_overshoot |-> ov,
       learned_outside_ref_temp |-> DEFAULT_OUTSIDE_REF]
      : st \in {HVAC_HEAT, STATE_UNAVAILABLE}, ov \in {0, 10} }

\* _load_config_options: a config entry with the given entities and toggles;
\* the numeric options take their defaults or the smallest value the options
\* form offers (config_flow.py lines 139-150)
Config(sc, os, ep, eo, el) ==
    [ heater_entity_id |-> TRUE,
      sensor_entity_id |-> TRUE,
      schedule_entity_id |-> sc,
      outside_sensor_id |-> os,
      enable_preheat |-> ep,
      enable_overshoot |-> eo,
      enable_learning |-> el,
      hysteresis |-> DEFAULT_HYSTERESIS,
      max_on_time |-> 30 * 60,
      max_preheat_time |-> 10,
      min_burn_time |-> 5,
      max_heat_loss_time |-> 60,
      weather_sensitivity |-> IF os THEN 2 ELSE 0,
      comfort_temp |-> DEFAULT_COMFORT_TEMP,
      setback_temp |-> DEFAULT_SETBACK_TEMP ]

\* the configurations explored
Configs ==
    { Config(TRUE, TRUE, TRUE, TRUE, FALSE),
      Config(TRUE, FALSE, TRUE, FALSE, FALSE),
      Config(FALSE, FALSE, FALSE, TRUE, TRUE) }

-----------------------------------------------------------------------------
(* The state machine *)

\* what the handlers read from hass
Hass == [now |-> now, sched |-> sched, next_event |-> next_event,
         outside |-> outside]

\* the fields of the object that the history variables keep
Pre(s) ==
    IF engine = "learning"
    THEN [ hvac_mode |-> s.hvac_mode,
           current_temp |-> s.current_temp,
           target_temp |-> s.target_temp,
           is_active_heating |-> s.is_active_heating,
           manual_mode |-> s.manual_mode,
           preheat_latch |-> s.preheat_latch,
           last_schedule_state |-> s.last_schedule_state ]
    ELSE [ hvac_mode |-> s.hvac_mode,
           current_temp |-> s.current_temp,
           target_temp |-> s.target_temp,
           is_active_heating |-> s.is_active_heating,
           preset_mode |-> s.preset_mode ]

\* a handler starts with an empty list of issued service calls
Enter(s) == [s EXCEPT !.calls = <<>>]

\* the last service call issued so far
LastIssued ==
    IF self.calls = <<>> THEN last_call ELSE self.calls[Len(self.calls)]

\* the heater switch after the service calls of a handler
SwitchAfter(sw, calls) ==
    IF calls = <<>> THEN sw
    ELSE IF calls[Len(calls)] = "turn_on" THEN STATE_ON ELSE STATE_OFF

InitWith(configs) ==
    /\ engine = "learning"
    /\ cfg \in configs
    /\ self = init_object(cfg)
    /\ prev = Pre(self)
    /\ entry = Pre(self)
    /\ event = "init"
    /\ last_call = "none"
    /\ started = FALSE
    /\ now = TickInterval
    /\ ticked = FALSE
    /\ sched \in IF cfg.schedule_entity_id THEN SchedStates ELSE {STATE_OFF}
    /\ next_event \in IF cfg.schedule_entity_id THEN NextEvents ELSE {None}
    /\ outside \in IF cfg.outside_sensor_id THEN OutsideStates ELSE {None}
    /\ switch \in {STATE_ON, STATE_OFF}
    /\ pending = <<>>

\* handler `name` ran: it had taken self to s1 when it entered the control
\* logic (s1 = Enter(self) if it never did), and left it as s2
Handled(name, s1, s2) ==
    /\ self' = s2
    /\ prev' = Pre(self)
    /\ entry' = Pre(s1)
    /\ event' = name
    /\ last_call' = LastIssued
    /\ switch' = SwitchAfter(switch, s2.calls)
    /\ UNCHANGED <<engine, pending>>

\* the platform adds the entity: async_added_to_hass
StartUp ==
    /\ ~started
    /\ engine = "learning"
    /\ \E last_state \in LastStates, sw \in {switch, STATE_UNAVAILABLE} :
          Handled("startup",
                  added_to_hass_entry(Enter(self), last_state, sw),
                  async_added_to_hass(Enter(self), last_state, sw, Hass))
    /\ started' = TRUE
    /\ ticked' = TRUE
    /\ UNCHANGED <<cfg, now, sched, next_event, outside>>

\* the 1-minute timer: _async_control_loop
Tick ==
    /\ started
    /\ engine = "learning"
    /\ ~ticked
    /\ Handled("tick", Enter(self), run_control_logic(Enter(self), Hass))
    /\ ticked' = TRUE
    /\ UNCHANGED <<cfg, started, now, sched, next_event, outside>>

\* the temperature sensor changes state: _async_sensor_changed
SensorChanged(temps) ==
    /\ started
    /\ engine = "learning"
    /\ \E new_state \in SensorStates(temps) :
          IF sensor_rejected(new_state)
          THEN Handled("sensor_rejected", Enter(self),
                       async_sensor_changed(Enter(self), new_state, Hass))
          ELSE Handled("sensor",
                       sensor_changed_entry(Enter(self), new_state, Hass),
                       async_sensor_changed(Enter(self), new_state, Hass))
    /\ UNCHANGED <<cfg, started, now, ticked, sched, next_event, outside>>

\* the schedule entity changes state or attributes: _async_control_loop_event
ScheduleChanged ==
    /\ started
    /\ engine = "learning"
    /\ cfg.schedule_entity_id
    /\ \E st \in SchedStates, ne \in NextEvents :
          /\ <<st, ne>> # <<sched, next_event>>
          /\ sched' = st
          /\ next_event' = ne
          /\ Handled(IF st # sched THEN "schedule" ELSE "schedule_attr",
                     Enter(self),
                     run_control_logic(Enter(self),
                        [now |-> now, sched |-> st, next_event |-> ne,
                         outside |-> outside]))
    /\ UNCHANGED <<cfg, started, now, ticked, outside>>

\* the user sets a temperature
SetTemperature ==
    /\ started
    /\ engine = "learning"
    /\ \E temp \in ManualTemps :
          Handled("set_temperature",
                  set_temperature_entry(Enter(self), temp),
                  async_set_temperature(Enter(self), temp, Hass))
    /\ UNCHANGED <<cfg, started, now, ticked, sched, next_event, outside>>

\* the user sets the mode
SetHvacMode ==
    /\ started
    /\ engine = "learning"
    /\ \E hvac_mode \in {HVAC_HEAT, HVAC_OFF} :
          Handled("set_hvac_mode",
                  set_hvac_mode_entry(Enter(self), hvac_mode, Hass),
                  async_set_hvac_mode(Enter(self), hvac_mode, Hass))
    /\ UNCHANGED <<cfg, started, now, ticked, sched, next_event, outside>>

\* the user picks a preset
SetPresetMode ==
    /\ started
    /\ engine = "learning"
    /\ \E preset_mode \in PresetModes :
          Handled("set_preset_mode", Enter(self),
                  async_set_preset_mode(Enter(self), preset_mode))
    /\ UNCHANGED <<cfg, started, now, ticked, sched, next_event, outside>>

\* an environment step: no handler runs, the history is cleared
Quiet(name) ==
    /\ self' = Enter(self)
    /\ prev' = Pre(self)
    /\ entry' = Pre(self)
    /\ event' = name
    /\ last_call' = LastIssued
    /\ UNCHANGED <<engine, cfg, started, switch, pending>>

\* the outdoor reading changes (no listener is registered for it)
OutsideChanged ==
    /\ started
    /\ engine = "learning"
    /\ cfg.outside_sensor_id
    /\ \E o \in OutsideStates \ {outside} : outside' = o
    /\ Quiet("outside")
    /\ UNCHANGED <<now, ticked, sched, next_event>>

\* the clock advances by one timer interval, once the timer has fired
Advance(limit) ==
    /\ started
    /\ ticked
    /\ now < TickInterval * limit
    /\ now' = now + TickInterval
    /\ ticked' = FALSE
    /\ Quiet("advance")
    /\ UNCHANGED <<sched, next_event, outside>>

\* the handlers that run _run_control_logic
ControlEvents ==
    {"startup", "tick", "sensor", "schedule", "schedule_attr",
     "set_temperature", "set_hvac_mode", "update_options"}

Init == InitWith(Configs)

Next ==
    \/ StartUp
    \/ Tick
    \/ SensorChanged(Temps)
    \/ ScheduleChanged
    \/ SetTemperature
    \/ SetHvacMode
    \/ SetPresetMode
    \/ OutsideChanged
    \/ Advance(MaxTicks + 1)

Spec == Init /\ [][Next]_vars

-----------------------------------------------------------------------------
(* The watchdog specification: one configuration, a stuck-low and a warm   *)
(* sample, and a clock that runs past max_on_time                          *)

WatchdogConfigs == { Config(FALSE, FALSE, FALSE, FALSE, FALSE) }

WatchdogTemps == {1480, 2000}

InitWatchdog == InitWith(WatchdogConfigs)

NextWatchdog ==
    \/ StartUp
    \/ Tick
    \/ SensorChanged(WatchdogTemps)
    \/ SetTemperature
    \/ SetHvacMode
    \/ Advance(30 + WatchdogSlack + 1)

SpecWatchdog == InitWatchdog /\ [][NextWatchdog]_vars

-----------------------------------------------------------------------------
(* The smart_heating specification *)

\* samples, targets and restored snapshots of the smart_heating engine; a
\* snapshot carries what extra_state_attributes (lines 175-187) published,
\* and learned_overshoot is any value _track_overshoot_peak can leave
SHTemps == {1980, 2000, 2100}

SHTargets == {1900}

SHLastStates ==
    { [present |-> FALSE, state |-> HVAC_OFF, target_temp |-> None,
       learned_heat_up_rate |-> SH_DEFAULT_HEAT_UP_RATE,
       learned_overshoot |-> SH_DEFAULT_OVERSHOOT],
      [present |-> TRUE, state |-> HVAC_HEAT, target_temp |-> None,
       learned_heat_up_rate |-> SH_DEFAULT_HEAT_UP_RATE,
       learned_overshoot |-> SH_DEFAULT_OVERSHOOT],
      [present |-> TRUE, state |-> HVAC_HEAT, target_temp |-> None,
       learned_heat_up_rate |-> SH_DEFAULT_HEAT_UP_RATE,
       learned_overshoot |-> SH_DEFAULT_HYSTERESIS] }

\* next_event attribute of the schedule entity
SHNextEvents == {None, TickInterval * 6}

\* options of the config entry: entities and the three toggles
SHOptions(ep, eo, el) ==
    [ heater_entity_id |-> TRUE,
      sensor_entity_id |-> TRUE,
      schedule_entity_id |-> TRUE,
      enable_preheat |-> ep,
      enable_overshoot |-> eo,
      enable_learning |-> el ]

SHOptionSets == { SHOptions(TRUE, TRUE, TRUE), SHOptions(TRUE, FALSE, TRUE) }

InitSH ==
    /\ engine = "smart_heating"
    /\ cfg = SHOptions(TRUE, TRUE, TRUE)
    /\ self = sh_init_object
    /\ prev = Pre(self)
    /\ entry = Pre(self)
    /\ event = "init"
    /\ last_call = "none"
    /\ started = FALSE
    /\ now = TickInterval
    /\ ticked = FALSE
    /\ sched \in SchedStates
    /\ next_event \in SHNextEvents
    /\ outside = None
    /\ switch = STATE_OFF
    /\ pending = <<>>

\* the platform adds the entity: async_added_to_hass
SHStartUp ==
    /\ ~started
    /\ engine = "smart_heating"
    /\ \E last_state \in SHLastStates :
          Handled("added", Enter(self),
                  sh_async_added_to_hass(Enter(self), last_state))
    /\ started' = TRUE
    /\ ticked' = TRUE
    /\ UNCHANGED <<cfg, now, sched, next_event, outside>>

\* the 1-minute timer: _async_control_loop
SHTick ==
    /\ started
    /\ engine = "smart_heating"
    /\ ~ticked
    /\ Handled("tick", Enter(self), sh_run_control_logic(cfg, Enter(self), Hass))
    /\ ticked' = TRUE
    /\ UNCHANGED <<cfg, started, now, sched, next_event, outside>>

\* the temperature sensor changes state: _async_sensor_changed
SHSensorChanged ==
    /\ started
    /\ engine = "smart_heating"
    /\ \E new_state \in SensorStates(SHTemps) :
          IF sh_sensor_rejected(new_state)
          THEN Handled("sensor_rejected", Enter(self),
                       sh_async_sensor_changed(cfg, Enter(self), new_state, Hass))
          ELSE Handled("sensor",
                       sh_sensor_changed_entry(cfg, Enter(self), new_state, Hass),
                       sh_async_sensor_changed(cfg, Enter(self), new_state, Hass))
    /\ UNCHANGED <<cfg, started, now, ticked, sched, next_event, outside>>

\* the schedule entity changes state or attributes: _async_control_loop_event
SHScheduleChanged ==
    /\ started
    /\ engine = "smart_heating"
    /\ cfg.schedule_entity_id
    /\ \E st \in SchedStates, ne \in SHNextEvents :
          /\ <<st, ne>> # <<sched, next_event>>
          /\ sched' = st
          /\ next_event' = ne
          /\ Handled(IF st # sched THEN "schedule" ELSE "schedule_attr",
                     Enter(self),
                     sh_run_control_logic(cfg, Enter(self),
                        [now |-> now, sched |-> st, next_event |-> ne,
                         outside |-> outside]))
    /\ UNCHANGED <<cfg, started, now, ticked, outside>>

\* the user sets a temperature
SHSetTemperature ==
    /\ started
    /\ engine = "smart_heating"
    /\ \E temp \in SHTargets :
          Handled("set_temperature",
                  sh_set_temperature_entry(Enter(self), temp),
                  sh_async_set_temperature(cfg, Enter(self), temp, Hass))
    /\ UNCHANGED <<cfg, started, now, ticked, sched, next_event, outside>>

\* the user sets the mode
SHSetHvacMode ==
    /\ started
    /\ engine = "smart_heating"
    /\ \E hvac_mode \in {HVAC_HEAT, HVAC_OFF} :
          Handled("set_hvac_mode",
                  sh_set_hvac_mode_entry(cfg, Enter(self), hvac_mode, Hass),
                  sh_async_set_hvac_mode(cfg, Enter(self), hvac_mode, Hass))
    /\ UNCHANGED <<cfg, started, now, ticked, sched, next_event, outside>>

\* the user saves other options: async_update_options
SHUpdateOptions ==
    /\ started
    /\ engine = "smart_heating"
    /\ \E options \in SHOptionSets \ {cfg} :
          /\ cfg' = sh_update_options(cfg, options)
          /\ Handled("update_options", Enter(self),
                     sh_run_control_logic(sh_update_options(cfg, options),
                                          Enter(self), Hass))
    /\ UNCHANGED <<started, now, ticked, sched, next_event, outside>>

NextSH ==
    \/ SHStartUp
    \/ SHTick
    \/ SHSensorChanged
    \/ SHScheduleChanged
    \/ SHSetTemperature
    \/ SHSetHvacMode
    \/ SHUpdateOptions
    \/ Advance(SHMaxTicks + 1)

SpecSH == InitSH /\ [][NextSH]_vars

-----------------------------------------------------------------------------
(* Both engines: the run starts as either of them *)

InitBoth == Init \/ InitSH

NextBoth == Next \/ NextSH

SpecBoth == InitBoth /\ [][NextBoth]_vars

-----------------------------------------------------------------------------
(* The target specification: the learning engine under one configuration   *)
(* with a schedule, and two different manual set-points                    *)

TargetConfigs == { Config(TRUE, FALSE, TRUE, FALSE, FALSE) }

TargetManualTemps == {1800, 2100}

\* the user sets a temperature, one of temps
SetTemperatureOf(temps) ==
    /\ started
    /\ engine = "learning"
    /\ \E temp \in temps :
          Handled("set_temperature",
                  set_temperature_entry(Enter(self), temp),
                  async_set_temperature(Enter(self), temp, Hass))
    /\ UNCHANGED <<cfg, started, now, ticked, sched, next_event, outside>>

InitTargets == InitWith(TargetConfigs)

NextTargets ==
    \/ StartUp
    \/ Tick
    \/ SensorChanged(Temps)
    \/ ScheduleChanged
    \/ SetTemperatureOf(TargetManualTemps)
    \/ SetHvacMode
    \/ Advance(MaxTicks + 1)

SpecTargets == InitTargets /\ [][NextTargets]_vars

-----------------------------------------------------------------------------
(* The heat-up learning specification: either engine, heating cycles of    *)
(* chosen temperature rise and duration fed to _set_boiler, which runs     *)
(* _learn_heat_up_rate when the cycle ends.  Time stamps are relative to   *)
(* the cycle's start.                                                      *)

\* the temperature at which a cycle starts, and the rises and durations
\* (minutes) of the cycles: samples from 0.0001 to 5.0 degrees per minute,
\* and cycles that the filters reject
CycleStartTemp == 1500

CycleRises == {10, 20, 5000}

CycleMinutes == {4, 10, 2000}

RateConfigs == { Config(FALSE, FALSE, FALSE, FALSE, TRUE) }

InitRates ==
    \/ InitWith(RateConfigs)
    \/ /\ InitSH
       /\ sched = STATE_ON
       /\ next_event = None

\* one heating cycle of the learning engine: _set_boiler(True) at the start
\* temperature, _set_boiler(False) after the rise
HeatingCycle ==
    /\ engine = "learning"
    /\ \E rise \in CycleRises, minutes \in CycleMinutes :
          LET s0 == [Enter(self) EXCEPT !.current_temp = CycleStartTemp,
                                        !.is_active_heating = FALSE]
              s1 == set_boiler(s0, TRUE, Hass)
              s2 == [s1 EXCEPT !.current_temp = CycleStartTemp + rise]
          IN  Handled("cycle", s2,
                      set_boiler(s2, FALSE,
                                 [Hass EXCEPT !.now = now + minutes * 60]))
    /\ UNCHANGED <<cfg, started, now, ticked, sched, next_event, outside>>

\* one heating cycle of the smart_heating engine
SHHeatingCycle ==
    /\ engine = "smart_heating"
    /\ \E rise \in CycleRises, minutes \in CycleMinutes :
          LET s0 == [Enter(self) EXCEPT !.current_temp = CycleStartTemp,
                                        !.is_active_heating = FALSE]
              s1 == sh_set_boiler(cfg, s0, TRUE, Hass)
              s2 == [s1 EXCEPT !.current_temp = CycleStartTemp + rise]
          IN  Handled("cycle", s2,
                      sh_set_boiler(cfg, s2, FALSE,
                                    [Hass EXCEPT !.now = now + minutes * 60]))
    /\ UNCHANGED <<cfg, started, now, ticked, sched, next_event, outside>>

NextRates ==
    \/ HeatingCycle
    \/ SHHeatingCycle

SpecRates == InitRates /\ [][NextRates]_vars

-----------------------------------------------------------------------------
(* The preheat window: a restored heat-up rate of 0.05 deg/min, the default *)
(* cap of 180 minutes, and a schedule whose next ON lies 70 minutes after   *)
(* the first timer tick, followed minute by minute.                          *)

PreheatTicks == 12

PreheatNextOn == TickInterval * 71

PreheatConfigs ==
    { [Config(TRUE, TRUE, TRUE, FALSE, FALSE)
          EXCEPT !.max_preheat_time = DEFAULT_MAX_PREHEAT_TIME] }

PreheatTemps == {1700, 2000}

PreheatLastStates ==
    { [present |-> TRUE, state |-> HVAC_HEAT, target_temp |-> None,
       learned_heat_up_rate |-> 500,
       learned_heat_loss_rate |-> DEFAULT_HEAT_LOSS_RATE,
       learned_overshoot |-> DEFAULT_OVERSHOOT,
       learned_outside_ref_temp |-> DEFAULT_OUTSIDE_REF] }

\* async_added_to_hass with the last state drawn from last_states
StartUpFrom(last_states) ==
    /\ ~started
    /\ engine = "learning"
    /\ \E last_state \in last_states, sw \in {switch, STATE_UNAVAILABLE} :
          Handled("startup",
                  added_to_hass_entry(Enter(self), last_state, sw),
                  async_added_to_hass(Enter(self), last_state, sw, Hass))
    /\ started' = TRUE
    /\ ticked' = TRUE
    /\ UNCHANGED <<cfg, now, sched, next_event, outside>>

\* the state machinery reads the attributes of the entity
ReadAttributes ==
    /\ started
    /\ engine = "learning"
    /\ Handled("attributes", Enter(self),
               extra_state_attributes(Enter(self), Hass).self)
    /\ UNCHANGED <<cfg, started, now, ticked, sched, next_event, outside>>

InitPreheat ==
    /\ engine = "learning"
    /\ cfg \in PreheatConfigs
    /\ self = init_object(cfg)
    /\ prev = Pre(self)
    /\ entry = Pre(self)
    /\ event = "init"
    /\ last_call = "none"
    /\ started = FALSE
    /\ now = TickInterval
    /\ ticked = FALSE
    /\ sched \in SchedStates
    /\ next_event \in {None, PreheatNextOn}
    /\ outside \in OutsideStates
    /\ switch \in {STATE_ON, STATE_OFF}
    /\ pending = <<>>

NextPreheat ==
    \/ StartUpFrom(PreheatLastStates)
    \/ Tick
    \/ SensorChanged(PreheatTemps)
    \/ OutsideChanged
    \/ ReadAttributes
    \/ Advance(PreheatTicks + 1)

SpecPreheat == InitPreheat /\ [][NextPreheat]_vars

-----------------------------------------------------------------------------
(* The learning specification: no schedule, an outdoor sensor, learning     *)
(* enabled, followed over whole heating and cooling phases.  The clock may  *)
(* run ahead by several timer intervals at once when the timer ticks in     *)
(* between would leave the object as it is.                                 *)

\* the clock of the learning specification stops after LearnHorizon minutes
LearnHorizon == 40

\* the longest runs of the clock in one step, in minutes
LearnSkips == {5, 30}

\* line 135: tracking of a cooling phase is capped 35 minutes after the peak
LearnConfigs ==
    { [Config(FALSE, TRUE, FALSE, FALSE, el) EXCEPT !.max_heat_loss_time = 35]
      : el \in BOOLEAN }

\* samples: freezing point, the switch-on point of the setback target, and
\* the setback target
LearnTemps == {0, 1480, 1500}

LearnLastStates ==
    { [present |-> TRUE, state |-> HVAC_HEAT, target_temp |-> None,
       learned_heat_up_rate |-> DEFAULT_HEAT_UP_RATE,
       learned_heat_loss_rate |-> DEFAULT_HEAT_LOSS_RATE,
       learned_overshoot |-> DEFAULT_OVERSHOOT,
       learned_outside_ref_temp |-> DEFAULT_OUTSIDE_REF] }

\* _async_control_loop at time t would leave the object as it is
TickIsIdle(t) ==
    run_control_logic(Enter(self), [Hass EXCEPT !.now = t]) = Enter(self)

\* the timer intervals until the first of the next `minutes` timer ticks that
\* would change the object, or `minutes` if none would
SkipLength(minutes) ==
    LET busy == { i \in 1..minutes : ~TickIsIdle(now + TickInterval * i) }
    IN  IF busy = {} THEN minutes
        ELSE CHOOSE i \in busy : \A j \in busy : i <= j

\* the clock runs on for up to `minutes` timer intervals in which no event
\* arrives; the timer ticks in between leave the object as it is, the tick
\* at the new time is taken next
Skip(minutes, limit) ==
    /\ started
    /\ ticked
    /\ now + TickInterval * SkipLength(minutes) <= TickInterval * limit
    /\ now' = now + TickInterval * SkipLength(minutes)
    /\ ticked' = FALSE
    /\ Quiet("advance")
    /\ UNCHANGED <<sched, next_event, outside>>

InitLearning == InitWith(LearnConfigs)

NextLearning ==
    \/ StartUpFrom(LearnLastStates)
    \/ Tick
    \/ SensorChanged(LearnTemps)
    \/ \E minutes \in LearnSkips : Skip(minutes, LearnHorizon + 1)

SpecLearning == InitLearning /\ [][NextLearning]_vars

-----------------------------------------------------------------------------
(* The start-up specification: the heater switch entity reports its actual  *)
(* state when the entity is added.                                          *)

\* async_added_to_hass, line 159 reading the state the switch is in
StartUpSynced(last_states) ==
    /\ ~started
    /\ engine = "learning"
    /\ \E last_state \in last_states :
          Handled("startup",
                  added_to_hass_entry(Enter(self), last_state, switch),
                  async_added_to_hass(Enter(self), last_state, switch, Hass))
    /\ started' = TRUE
    /\ ticked' = TRUE
    /\ UNCHANGED <<cfg, now, sched, next_event, outside>>

InitStartUp == InitWith(Configs)

NextStartUp ==
    \/ StartUpSynced(LastStates)
    \/ Tick
    \/ SensorChanged(Temps)
    \/ SetHvacMode
    \/ Advance(MaxTicks + 1)

SpecStartUp == InitStartUp /\ [][NextStartUp]_vars

-----------------------------------------------------------------------------
(* The weather specification: preheat under restored heat-up rates at both  *)
(* ends of their range, several weather sensitivities and reference         *)
(* temperatures, and outdoor readings on either side of the reference.      *)

\* line 136: weather_sensitivity in percent per degree
WeatherSensitivities == {0, 2, 10}

WeatherConfigs ==
    { [Config(TRUE, TRUE, TRUE, FALSE, FALSE) EXCEPT !.weather_sensitivity = ws]
      : ws \in WeatherSensitivities }

\* readings of the outdoor sensor, None when it has none
WeatherReadings == {None, -500, 0, 1000, 2000}

WeatherTemps == {1990, 2000}

WeatherLastStates ==
    { [present |-> TRUE, state |-> HVAC_HEAT, target_temp |-> None,
       learned_heat_up_rate |-> r,
       learned_heat_loss_rate |-> DEFAULT_HEAT_LOSS_RATE,
       learned_overshoot |-> DEFAULT_OVERSHOOT,
       learned_outside_ref_temp |-> ref]
      : r \in {100, 10000}, ref \in {500, DEFAULT_OUTSIDE_REF} }

\* the outdoor sensor reports a reading (no listener is registered for it)
OutsideReads(readings) ==
    /\ started
    /\ engine = "learning"
    /\ cfg.outside_sensor_id
    /\ \E o \in readings \ {outside} : outside' = o
    /\ Quiet("outside")
    /\ UNCHANGED <<now, ticked, sched, next_event>>

InitWeather ==
    /\ engine = "learning"
    /\ cfg \in WeatherConfigs
    /\ self = init_object(cfg)
    /\ prev = Pre(self)
    /\ entry = Pre(self)
    /\ event = "init"
    /\ last_call = "none"
    /\ started = FALSE
    /\ now = TickInterval
    /\ ticked = FALSE
    /\ sched = STATE_OFF
    /\ next_event \in NextEvents
    /\ outside \in WeatherReadings
    /\ switch = STATE_OFF
    /\ pending = <<>>

NextWeather ==
    \/ StartUpFrom(WeatherLastStates)
    \/ Tick
    \/ SensorChanged(WeatherTemps)
    \/ OutsideReads(WeatherReadings)
    \/ Advance(MaxTicks + 1)

SpecWeather == InitWeather /\ [][NextWeather]_vars

-----------------------------------------------------------------------------
(* The estimator specification: the schedule's next ON lies three timer     *)
(* intervals after start-up and the clock runs past it, so that the        *)
(* attributes are read before, at and after the next ON, with the schedule  *)
(* entity in either state, with and without preheat.                        *)

EstimatorTicks == 4

EstimatorNextOn == TickInterval * 3

EstimatorConfigs ==
    { Config(TRUE, FALSE, TRUE, FALSE, FALSE),
      Config(TRUE, FALSE, FALSE, FALSE, FALSE) }

\* samples: the switch-on point of the setback target, 0.1 degree below the
\* comfort target, and the comfort target
EstimatorTemps == {1480, 1990, 2000}

InitEstimator ==
    /\ engine = "learning"
    /\ cfg \in EstimatorConfigs
    /\ self = init_object(cfg)
    /\ prev = Pre(self)
    /\ entry = Pre(self)
    /\ event = "init"
    /\ last_call = "none"
    /\ started = FALSE
    /\ now = TickInterval
    /\ ticked = FALSE
    /\ sched \in SchedStates
    /\ next_event \in {None, EstimatorNextOn}
    /\ outside = None
    /\ switch \in {STATE_ON, STATE_OFF}
    /\ pending = <<>>

NextEstimator ==
    \/ StartUpFrom(LearnLastStates)
    \/ Tick
    \/ SensorChanged(EstimatorTemps)
    \/ SetTemperature
    \/ SetHvacMode
    \/ ReadAttributes
    \/ Advance(EstimatorTicks + 1)

SpecEstimator == InitEstimator /\ [][NextEstimator]_vars

-----------------------------------------------------------------------------
(* The overshoot specification: the smart_heating engine without a next    *)
(* event of the schedule, followed over whole off cycles.  The clock may    *)
(* run ahead by several timer intervals at once when the timer ticks in     *)
(* between would leave the object as it is.                                 *)

\* the clock of the overshoot specification stops after OvershootHorizon
\* minutes
OvershootHorizon == 34

\* the longest runs of the clock in one step, in minutes
OvershootSkips == {5, 31}

\* _async_control_loop of smart_heating at time t would leave the object as
\* it is
SHTickIsIdle(t) ==
    sh_run_control_logic(cfg, Enter(self), [Hass EXCEPT !.now = t]) = Enter(self)

\* the timer intervals until the first of the next `minutes` timer ticks that
\* would change the object, or `minutes` if none would
SHSkipLength(minutes) ==
    LET busy == { i \in 1..minutes : ~SHTickIsIdle(now + TickInterval * i) }
    IN  IF busy = {} THEN minutes
        ELSE CHOOSE i \in busy : \A j \in busy : i <= j

\* the clock runs on for up to `minutes` timer intervals in which no event
\* arrives; the tick at the new time is taken next
SHSkip(minutes, limit) ==
    /\ started
    /\ ticked
    /\ now + TickInterval * SHSkipLength(minutes) <= TickInterval * limit
    /\ now' = now + TickInterval * SHSkipLength(minutes)
    /\ ticked' = FALSE
    /\ Quiet("advance")
    /\ UNCHANGED <<sched, next_event, outside>>

InitOvershoot ==
    /\ InitSH
    /\ sched = STATE_OFF
    /\ next_event = None

NextOvershoot ==
    \/ SHStartUp
    \/ SHTick
    \/ SHSensorChanged
    \/ SHSetHvacMode
    \/ \E minutes \in OvershootSkips : SHSkip(minutes, OvershootHorizon + 1)

SpecOvershoot == InitOvershoot /\ [][NextOvershoot]_vars

-----------------------------------------------------------------------------
(* The asynchronous specification.  Every handler is a coroutine and        *)
(* "await self.hass.services.async_call(...)" is a point where it may be    *)
(* suspended; whether the platform suspends it there is not decided by this *)
(* code, so a handler either runs to completion in one step (the actions    *)
(* above) or stops at the dispatch and is resumed in a later step, with     *)
(* other handlers running in between.  At most MaxPending invocations are   *)
(* suspended at a time, and the clock stands still while one is.  Within   *)
(* the horizon the timer's handler finds no command to dispatch (the       *)
(* watchdog needs 30 minutes), so it always runs to completion.            *)

MaxPending == 2

\* the clock of the asynchronous specification stops after AsyncHorizon
\* minutes
AsyncHorizon == 7

\* the longest runs of the clock in one step, in minutes
AsyncSkips == {5}

AsyncConfigs == { Config(FALSE, FALSE, FALSE, FALSE, TRUE) }

\* samples: the switch-on and the switch-off point of the setback target
AsyncTemps == {1480, 1500}

\* mutant of boiler_turn_off_dispatch: the flag is still set when the command
\* is dispatched
boiler_turn_off_dispatch_flag_late(s) ==
    [s EXCEPT !.calls = Append(@, "turn_off")]

\* _set_boiler lines 394-397: the turn-off branch up to the await
boiler_turn_off_dispatch(s) ==
    [s EXCEPT !.is_active_heating = FALSE, !.calls = Append(@, "turn_off")]

\* _set_boiler lines 399-404: the turn-off branch after the await
boiler_turn_off_resume(s, h) ==
    IF cfg.enable_learning
    THEN [learn_heat_up_rate(s, h) EXCEPT
             !.last_off_time = h.now,
             !.peak_temp_observed = s.current_temp,
             !.peak_temp_time = h.now,
             !.heat_loss_tracking_active = TRUE]
    ELSE s

\* lines 287-377: the object when _run_control_logic calls _set_boiler
before_set_boiler(s, h) ==
    IF short_circuit(s) THEN s
    ELSE resolve_target(detect_schedule_change(s, h), h)

\* the command _run_control_logic dispatches from s, "none" if it has none
control_command(s, h) ==
    LET calls == run_control_logic(s, h).calls
    IN  IF Len(calls) = Len(s.calls) THEN "none" ELSE calls[Len(calls)]

\* _run_control_logic up to the await of its dispatch; a turn-on has made
\* all its assignments by then (lines 388-390)
run_control_logic_to_dispatch(s, h) ==
    IF control_command(s, h) = "turn_off"
    THEN boiler_turn_off_dispatch(before_set_boiler(s, h))
    ELSE run_control_logic(s, h)

\* a suspended invocation: the command it dispatched, whether it was
\* suspended in async_set_hvac_mode at line 254 (so that _run_control_logic
\* is still to run), and what the cycle-tracking fields were at the dispatch
Continuation(kind, then_control, s) ==
    [kind |-> kind, then_control |-> then_control,
     last_on_time |-> s.last_on_time,
     heat_start_temp |-> s.heat_start_temp,
     current_temp |-> s.current_temp]

\* the suspended invocations without the i-th
Without(i) == SubSeq(pending, 1, i - 1) \o SubSeq(pending, i + 1, Len(pending))

\* handler `name` ran from s1, where it entered the control logic, to s2,
\* and leaves p suspended
HandledPending(name, s1, s2, p) ==
    /\ self' = s2
    /\ prev' = Pre(self)
    /\ entry' = Pre(s1)
    /\ event' = name
    /\ last_call' = LastIssued
    /\ switch' = SwitchAfter(switch, s2.calls)
    /\ pending' = p
    /\ UNCHANGED engine

\* handler `name` enters _run_control_logic with s1 and is suspended at the
\* dispatch of its command
SuspendedInControl(name, s1) ==
    /\ Len(pending) < MaxPending
    /\ control_command(s1, Hass) # "none"
    /\ HandledPending(name, s1, run_control_logic_to_dispatch(s1, Hass),
          Append(pending,
                 Continuation(control_command(s1, Hass), FALSE,
                              run_control_logic_to_dispatch(s1, Hass))))

\* async_added_to_hass, suspended in _run_control_logic
StartUpSuspended(last_states) ==
    /\ ~started
    /\ engine = "learning"
    /\ \E last_state \in last_states, sw \in {switch, STATE_UNAVAILABLE} :
          SuspendedInControl("startup",
              added_to_hass_entry(Enter(self), last_state, sw))
    /\ started' = TRUE
    /\ ticked' = TRUE
    /\ UNCHANGED <<cfg, now, sched, next_event, outside>>

\* _async_sensor_changed, suspended in _run_control_logic
SensorChangedSuspended(temps) ==
    /\ started
    /\ engine = "learning"
    /\ \E new_state \in SensorStates(temps) :
          /\ ~sensor_rejected(new_state)
          /\ SuspendedInControl("sensor",
                sensor_changed_entry(Enter(self), new_state, Hass))
    /\ UNCHANGED <<cfg, started, now, ticked, sched, next_event, outside>>

\* async_set_hvac_mode, suspended at line 254 or in _run_control_logic
SetHvacModeSuspended ==
    /\ started
    /\ engine = "learning"
    /\ \E hvac_mode \in {HVAC_HEAT, HVAC_OFF} :
          LET s1 == [Enter(self) EXCEPT !.hvac_mode = hvac_mode]
          IN  IF hvac_mode = HVAC_OFF /\ s1.is_active_heating
              THEN /\ Len(pending) < MaxPending
                   /\ HandledPending("set_hvac_mode", s1,
                         boiler_turn_off_dispatch(s1),
                         Append(pending,
                                Continuation("turn_off", TRUE,
                                             boiler_turn_off_dispatch(s1))))
              ELSE SuspendedInControl("set_hvac_mode", s1)
    /\ UNCHANGED <<cfg, started, now, ticked, sched, next_event, outside>>

\* a suspended invocation is resumed after its await: the rest of
\* _set_boiler, and for async_set_hvac_mode _run_control_logic, which runs to
\* its end or is suspended at its own dispatch
Resume ==
    /\ engine = "learning"
    /\ \E i \in 1..Len(pending) :
          LET k == pending[i]
              name == IF k.kind = "turn_off" THEN "resume_turn_off"
                      ELSE "resume_turn_on"
              s1 == IF k.kind = "turn_off"
                    THEN boiler_turn_off_resume(Enter(self), Hass)
                    ELSE Enter(self)
          IN  IF k.then_control
              THEN \/ HandledPending(name, s1, run_control_logic(s1, Hass),
                                     Without(i))
                   \/ /\ control_command(s1, Hass) # "none"
                      /\ HandledPending(name, s1,
                            run_control_logic_to_dispatch(s1, Hass),
                            Append(Without(i),
                                   Continuation(control_command(s1, Hass), FALSE,
                                      run_control_logic_to_dispatch(s1, Hass))))
              ELSE HandledPending(name, s1, s1, Without(i))
    /\ UNCHANGED <<cfg, started, now, ticked, sched, next_event, outside>>

InitAsync == InitWith(AsyncConfigs)

NextAsync ==
    \/ StartUpFrom(LearnLastStates)
    \/ StartUpSuspended(LearnLastStates)
    \/ Tick
    \/ SensorChanged(AsyncTemps)
    \/ SensorChangedSuspended(AsyncTemps)
    \/ SetHvacMode
    \/ SetHvacModeSuspended
    \/ Resume
    \/ /\ pending = <<>>
       /\ \E minutes \in AsyncSkips : Skip(minutes, AsyncHorizon + 1)

SpecAsync == InitAsync /\ [][NextAsync]_vars

-----------------------------------------------------------------------------
(* Claims.  event names the step taken last, prev and entry are the object *)
(* when that handler was entered and when it entered _run_control_logic,   *)
(* self is the object it left, and sched, next_event, outside and now are  *)
(* what it read.                                                            *)

\* the invocation of the last step returned at line 289
ShortCircuited == entry.current_temp = None \/ entry.hvac_mode = HVAC_OFF

\* the invocation of the last step ran the target resolver and boiler control
RanFully == event \in ControlEvents /\ ~ShortCircuited

\* the target the invocation of the last step decided the boiler against:
\* target_temp, or in smart_heating the local target that preheat raised
ResolvedTarget ==
    IF engine = "smart_heating" /\ self.preset_mode = "preheat"
    THEN SH_COMFORT_TARGET ELSE self.target_temp

\* the overshoot the configuration asks for
EffectiveOvershoot == IF cfg.enable_overshoot THEN self.overshoot_temp ELSE 0

\* C1: a control-loop invocation that runs with mode OFF or without a known
\* temperature leaves the boiler off, and issues turn_off if it found it on
C1_ShortCircuitForcesOff ==
    (event \in ControlEvents /\ ShortCircuited) =>
        /\ ~self.is_active_heating
        /\ entry.is_active_heating => self.calls = <<"turn_off">>

C1_Witness ==
    /\ event = "startup"
    /\ entry.hvac_mode = HVAC_HEAT
    /\ entry.current_temp = None
    /\ entry.is_active_heating
    /\ ~self.is_active_heating
    /\ self.calls = <<"turn_off">>

\* C2: an invocation that finds the boiler active for longer than max_on_time
\* leaves it idle although the cutoff temperature is not reached; turning the
\* boiler on stamps last_on_time; with a tick every TickInterval the boiler is
\* never active for more than max_on_time plus one tick
C2_Watchdog ==
    /\ (event \in ControlEvents /\ prev.is_active_heating
          /\ self.is_active_heating) =>
          /\ self.last_on_time # None
          /\ now - self.last_on_time <= cfg.max_on_time
    /\ (event \in ControlEvents /\ ~prev.is_active_heating
          /\ self.is_active_heating) => self.last_on_time = now
    /\ (started /\ self.is_active_heating) =>
          /\ self.last_on_time # None
          /\ now - self.last_on_time <= cfg.max_on_time + TickInterval

C2_Witness ==
    /\ event = "tick"
    /\ prev.is_active_heating
    /\ self.hvac_mode = HVAC_HEAT
    /\ self.current_temp # None
    /\ self.current_temp < self.target_temp - EffectiveOvershoot
    /\ now - self.last_on_time > cfg.max_on_time
    /\ ~self.is_active_heating
    /\ self.calls = <<"turn_off">>

\* C3: no service call repeats the one issued before it, boiler_active is
\* what the last call commanded, and a handler that changes boiler_active
\* issues exactly one call
C3_CommandsAlternate ==
    /\ \A i \in 1..Len(self.calls) :
          self.calls[i] # (IF i = 1 THEN last_call ELSE self.calls[i - 1])
    /\ (started /\ LastIssued # "none") =>
          (self.is_active_heating <=> LastIssued = "turn_on")
    /\ (prev.is_active_heating # self.is_active_heating) => Len(self.calls) = 1

C3_Witness ==
    /\ event \in ControlEvents
    /\ last_call = "turn_off"
    /\ self.calls = <<"turn_on">>
    /\ ~prev.is_active_heating
    /\ self.is_active_heating

\* C4: in HEAT mode with a known temperature and the boiler idle, the
\* invocation turns the boiler on iff current_temp <= target_temp - hysteresis
C4_TurnOnIffBelowBand ==
    (RanFully /\ ~entry.is_active_heating) =>
        /\ self.is_active_heating <=>
              self.current_temp <= self.target_temp - cfg.hysteresis
        /\ self.is_active_heating => self.calls = <<"turn_on">>
        /\ ~self.is_active_heating => self.calls = <<>>

C4_Witness ==
    /\ event = "sensor"
    /\ RanFully
    /\ ~entry.is_active_heating
    /\ self.current_temp = self.target_temp - cfg.hysteresis
    /\ self.is_active_heating
    /\ self.calls = <<"turn_on">>

\* C5: in HEAT mode with a known temperature and the boiler active, the
\* invocation of either engine turns the boiler off whenever current_temp >=
\* target - overshoot, the target being the one that invocation resolved and
\* the overshoot counting only if compensation is enabled
C5_TurnOffAtOffPoint ==
    (RanFully /\ entry.is_active_heating
       /\ self.current_temp >= ResolvedTarget - EffectiveOvershoot) =>
        /\ ~self.is_active_heating
        /\ self.calls = <<"turn_off">>

C5_Witness ==
    /\ engine = "learning"
    /\ event = "sensor"
    /\ RanFully
    /\ entry.is_active_heating
    /\ cfg.enable_overshoot
    /\ self.overshoot_temp > 0
    /\ self.current_temp = self.target_temp - self.overshoot_temp
    /\ ~self.is_active_heating
    /\ self.calls = <<"turn_off">>

\* the hysteresis and the watchdog limit of the running engine
Hysteresis ==
    IF engine = "smart_heating" THEN SH_DEFAULT_HYSTERESIS ELSE cfg.hysteresis

MaxOnTime ==
    IF engine = "smart_heating" THEN SH_MAX_ON_TIME ELSE cfg.max_on_time

\* C6, as claimed: with the boiler active, a tick that finds mode, target and
\* current_temp unchanged, current_temp still at or below target - hysteresis
\* and the watchdog limit not reached, leaves the boiler active
C6_NoRapidCycling ==
    (event = "tick" /\ RanFully
       /\ prev.is_active_heating
       /\ prev.hvac_mode = self.hvac_mode
       /\ prev.target_temp = self.target_temp
       /\ (engine = "smart_heating" => prev.preset_mode = self.preset_mode)
       /\ prev.current_temp = self.current_temp
       /\ self.current_temp <= ResolvedTarget - Hysteresis
       /\ now - self.last_on_time <= MaxOnTime) =>
        self.is_active_heating

\* the invocation of the last step found the schedule going from OFF to ON
SawScheduleTurnOn ==
    /\ RanFully
    /\ cfg.schedule_entity_id
    /\ entry.last_schedule_state = STATE_OFF
    /\ sched = STATE_ON

\* C7: the invocation that finds the schedule going OFF->ON with a manual
\* override set ends without the override and with the comfort target, and
\* decides the boiler against that target
C7_ManualResetOnScheduleOn ==
    (SawScheduleTurnOn /\ entry.manual_mode) =>
        /\ ~self.manual_mode
        /\ self.target_temp = cfg.comfort_temp
        /\ ~entry.is_active_heating =>
              (self.is_active_heating <=>
                  self.current_temp <= cfg.comfort_temp - cfg.hysteresis)
        /\ (entry.is_active_heating
              /\ self.current_temp >= cfg.comfort_temp - EffectiveOvershoot)
              => ~self.is_active_heating

C7_Witness ==
    /\ event = "schedule"
    /\ SawScheduleTurnOn
    /\ entry.manual_mode
    /\ entry.target_temp \in ManualTemps
    /\ entry.is_active_heating
    /\ self.current_temp < entry.target_temp
    /\ ~self.manual_mode
    /\ self.target_temp = cfg.comfort_temp
    /\ self.calls = <<"turn_off">>

\* the invocation of the last step read a schedule state that differs from
\* last_schedule_state
SawScheduleDiffer ==
    /\ RanFully
    /\ cfg.schedule_entity_id
    /\ sched # entry.last_schedule_state

\* C8: from set_temperature(v) on, every handler leaves manual_mode set and
\* target_temp at v, until an invocation reads a schedule state that differs
\* from last_schedule_state
C8_ManualTargetPersists ==
    /\ (event = "set_temperature" /\ ~SawScheduleDiffer) =>
          /\ self.manual_mode
          /\ self.target_temp \in ManualTemps
    /\ (event # "set_temperature" /\ prev.manual_mode /\ ~SawScheduleDiffer) =>
          /\ self.manual_mode
          /\ self.target_temp = prev.target_temp

C8_Witness ==
    /\ event = "tick"
    /\ RanFully
    /\ prev.manual_mode
    /\ prev.target_temp \in ManualTemps
    /\ cfg.enable_preheat
    /\ sched = STATE_OFF
    /\ next_event # None
    /\ now >= next_event - cfg.max_preheat_time * 60
    /\ self.current_temp < cfg.comfort_temp
    /\ self.manual_mode
    /\ self.target_temp = prev.target_temp

\* C9, as claimed: once a change of the schedule's state has been handled,
\* manual_mode is false, in every mode and with or without a temperature
C9_ManualClearedOnEveryTransition ==
    event = "schedule" => ~self.manual_mode

\* C10: once the latch is set with the comfort target and no manual
\* override, an invocation that does not find the schedule ON keeps the
\* latch, the comfort target and the preheat preset
C10_LatchSticky ==
    (event \in ControlEvents /\ entry.preheat_latch /\ ~entry.manual_mode
       /\ entry.target_temp = cfg.comfort_temp /\ sched # STATE_ON) =>
        /\ self.preheat_latch
        /\ self.target_temp = cfg.comfort_temp
        /\ ~self.manual_mode
        /\ RanFully => self.preset_mode = "preheat"

C10_Witness ==
    /\ event = "sensor"
    /\ RanFully
    /\ entry.preheat_latch
    /\ ~entry.manual_mode
    /\ sched = STATE_OFF
    /\ next_event = None
    /\ self.current_temp >= cfg.comfort_temp
    /\ self.preheat_latch
    /\ self.target_temp = cfg.comfort_temp
    /\ self.preset_mode = "preheat"

\* C11, as claimed: in every state of the learning engine preheat_latch is
\* true only if manual_mode is false and the schedule is OFF
C11_LatchImpliesAutoAndScheduleOff ==
    (engine = "learning" /\ self.preheat_latch) =>
        (~self.manual_mode /\ sched = STATE_OFF)

\* C12: in every state with mode other than OFF, target_temp is comfort_temp,
\* setback_temp, or the value of the last set_temperature call: a target that
\* is neither comfort nor setback is held under manual_mode, and it is the
\* value the handler just taken was called with or the target of the state
\* before it
C12_TargetIsManualComfortOrSetback ==
    (started /\ self.hvac_mode # HVAC_OFF) =>
        \/ self.target_temp \in {cfg.comfort_temp, cfg.setback_temp}
        \/ /\ self.manual_mode
           /\ self.target_temp =
                 (IF event = "set_temperature" THEN entry.target_temp
                  ELSE prev.target_temp)

C12_Witness ==
    /\ event = "set_temperature"
    /\ self.hvac_mode = HVAC_HEAT
    /\ prev.manual_mode
    /\ prev.target_temp = 2100
    /\ self.manual_mode
    /\ self.target_temp = 1800

\* C13: heat_up_rate of either engine stays within [0.01, 1.0] after any
\* sequence of heating cycles, whatever rate each cycle sampled
C13_HeatUpRateClamped ==
    /\ self.heat_up_rate >= 100
    /\ self.heat_up_rate <= 10000

\* a cycle that sampled 5.0 degrees per minute left the rate at 1.0
C13_Witness ==
    /\ event = "cycle"
    /\ self.calls = <<"turn_on", "turn_off">>
    /\ self.current_temp - self.heat_start_temp = 5000
    /\ self.last_off_time - self.last_on_time = 600
    /\ self.heat_up_rate = 10000

\* C14, as claimed: heat_loss_rate of the learning engine is within
\* [0.001, 0.5] in every state, the state after construction included
C14_HeatLossRateInRange ==
    engine = "learning" =>
        (self.heat_loss_rate >= 10 /\ self.heat_loss_rate <= 5000)

\* C15: with preheat enabled, the schedule OFF, no manual override and the
\* latch clear, a full control-loop invocation sets the latch and targets the
\* comfort temperature exactly when the deficit comfort - current is positive
\* and now >= next_on - min(deficit / adjusted_rate, max_preheat_time);
\* otherwise the latch stays clear and the target is the setback temperature
C15_Deficit == cfg.comfort_temp - self.current_temp

C15_Engages ==
    /\ next_event # None
    /\ C15_Deficit > 0
    /\ now >= next_event - Min((C15_Deficit * 6000) \div adjusted_rate(self, Hass),
                               cfg.max_preheat_time * 60)

C15_PreheatEngagesIffInWindow ==
    (/\ engine = "learning"
     /\ RanFully
     /\ cfg.enable_preheat /\ cfg.schedule_entity_id
     /\ sched = STATE_OFF
     /\ ~entry.manual_mode /\ ~self.manual_mode
     /\ ~entry.preheat_latch) =>
        IF C15_Engages
        THEN self.preheat_latch /\ self.target_temp = cfg.comfort_temp
        ELSE ~self.preheat_latch /\ self.target_temp = cfg.setback_temp

C15_Witness ==
    /\ event = "tick"
    /\ sched = STATE_OFF
    /\ outside = None
    /\ self.heat_up_rate = 500
    /\ self.current_temp = 1700
    /\ cfg.comfort_temp = 2000
    /\ cfg.max_preheat_time = 180
    /\ now = next_event - 60 * 60
    /\ ~entry.preheat_latch
    /\ self.preheat_latch
    /\ self.target_temp = cfg.comfort_temp

\* C16: preheat never starts earlier than max_preheat_time before the next
\* scheduled ON: whenever a handler leaves the latch set that it found clear,
\* the schedule has a next ON and now >= next_on - max_preheat_time
C16_PreheatNotBeforeCap ==
    (engine = "learning" /\ ~prev.preheat_latch /\ self.preheat_latch) =>
        /\ next_event # None
        /\ now >= next_event - cfg.max_preheat_time * 60

C16_Witness ==
    /\ engine = "learning"
    /\ event = "tick"
    /\ ~prev.preheat_latch
    /\ self.preheat_latch
    /\ (C15_Deficit * 6000) \div adjusted_rate(self, Hass) > cfg.max_preheat_time * 60
    /\ now = next_event - cfg.max_preheat_time * 60

\* the target of an invocation that the preheat scheduler has no part in:
\* comfort while the schedule is ON, setback otherwise
C17_FallbackTarget ==
    IF cfg.schedule_entity_id /\ sched = STATE_ON
    THEN cfg.comfort_temp ELSE cfg.setback_temp

C18_NoScheduleTargetFrame ==
    (engine = "learning" /\ ~cfg.schedule_entity_id /\ event \in ControlEvents) =>
        /\ self.target_temp = entry.target_temp
        /\ self.manual_mode = entry.manual_mode

C18_Witness ==
    /\ engine = "learning"
    /\ ~cfg.schedule_entity_id
    /\ event = "sensor"
    /\ RanFully
    /\ entry.manual_mode
    /\ entry.target_temp = 2100
    /\ self.target_temp = 2100

C20_NextFireEstimatorReadOnly ==
    [][event' = "attributes" =>
          /\ self' = Enter(self)
          /\ last_call' = LastIssued
          /\ switch' = switch]_vars

C20_Witness ==
    /\ engine = "learning"
    /\ event = "attributes"
    /\ sched = STATE_OFF
    /\ ~self.is_active_heating
    /\ ~self.preheat_latch
    /\ now < next_event - 60 * 60
    /\ extra_state_attributes(self, Hass).attributes.next_fire_timestamp
          = next_event - 60 * 60

\* what boiler control decides in a full invocation, from the boiler's state
\* on entry, the sample, the target and the configured band and run time
C21_Decision ==
    IF entry.is_active_heating
    THEN ~ \/ self.current_temp >= self.target_temp - EffectiveOvershoot
           \/ /\ Truthy(self.last_on_time)
              /\ now - self.last_on_time > cfg.max_on_time
    ELSE self.current_temp <= self.target_temp - cfg.hysteresis

\* C21: with learning disabled no step after start-up changes heat_up_rate,
\* heat_loss_rate, overshoot or outside_ref_temp, heat_loss_tracking_active
\* stays false and no peak is recorded; with learning enabled or disabled a
\* full invocation decides the boiler by the same rule, in which neither the
\* flag nor a learned rate occurs
C21_LearningDisabledFrame ==
    [][(engine = "learning" /\ started) =>
          /\ ~cfg.enable_learning =>
                /\ self'.heat_up_rate = self.heat_up_rate
                /\ self'.heat_loss_rate = self.heat_loss_rate
                /\ self'.overshoot_temp = self.overshoot_temp
                /\ self'.outside_ref_temp = self.outside_ref_temp
                /\ ~self'.heat_loss_tracking_active
                /\ self'.peak_temp_observed = None
                /\ self'.peak_temp_time = None
          /\ RanFully' => (self'.is_active_heating = C21_Decision')]_vars

C21_Witness ==
    /\ engine = "learning"
    /\ ~cfg.enable_learning
    /\ RanFully
    /\ entry.is_active_heating
    /\ self.calls = <<"turn_off">>
    /\ now - self.last_on_time >= cfg.min_burn_time * 60
    /\ self.current_temp - self.heat_start_temp >= MIN_DELTA_TEMP
    /\ outside # None
    /\ self.heat_up_rate = DEFAULT_HEAT_UP_RATE
    /\ self.outside_ref_temp = DEFAULT_OUTSIDE_REF
    /\ ~self.heat_loss_tracking_active

C23_Learned(rate, delta, duration) ==
    IF duration < cfg.min_burn_time * 60 \/ delta < MIN_DELTA_TEMP THEN rate
    ELSE Max(100, Min(10000, (rate * 8 + ((delta * 6000) \div duration) * 2) \div 10))

\* C23: on an ACTIVE->IDLE transition with learning enabled, heat_up_rate is
\* left unchanged if the cycle lasted less than min_burn_time or the rise was
\* below 0.2 degrees, and otherwise becomes clamp(0.01, 1.0, 0.8*heat_up_rate
\* + 0.2*(delta/duration)), duration and delta being measured from the stamps
\* taken when that cycle's IDLE->ACTIVE transition happened
C23_HeatUpRateLearned ==
    [][(/\ engine = "learning"
        /\ cfg.enable_learning
        /\ started
        /\ self.is_active_heating
        /\ ~self'.is_active_heating) =>
          self'.heat_up_rate =
              C23_Learned(self.heat_up_rate,
                          self'.current_temp - self.heat_start_temp,
                          now' - self.last_on_time)]_vars

\* C24: an ACTIVE->IDLE transition forced by the watchdog (the sample is
\* still below the switch-off point) learns the heat-up rate as a
\* target-reached exit does: whenever the recorded rise is at least 0.2
\* degrees, heat_up_rate becomes the clamped blend of C23 for that cycle
C24_WatchdogExitLearns ==
    [][(/\ engine = "learning"
        /\ cfg.enable_learning
        /\ started
        /\ self.is_active_heating
        /\ ~self'.is_active_heating
        /\ RanFully'
        /\ self'.current_temp < self'.target_temp - EffectiveOvershoot'
        /\ now' - self.last_on_time > cfg.max_on_time
        /\ self'.current_temp - self.heat_start_temp >= MIN_DELTA_TEMP) =>
          self'.heat_up_rate =
              C23_Learned(self.heat_up_rate,
                          self'.current_temp - self.heat_start_temp,
                          now' - self.last_on_time)]_vars

\* the heat-loss rate after one blend of a fall of delta (1/100 degree) over
\* duration seconds into rate
HeatLossBlend(rate, delta, duration) ==
    Max(10, Min(5000, (rate * 8 + ((delta * 6000) \div duration) * 2) \div 10))

\* C25: each idle period yields at most one heat-loss update.  A step changes
\* heat_loss_rate only while the boiler was idle with tracking armed, by one
\* blend, and either at the cap (time since the peak >= max_heat_loss_time,
\* tracking is disarmed) or in the step that turns the boiler on; tracking is
\* armed again only by the next ACTIVE->IDLE transition, so a measurement
\* finalized or rejected at the cap is not applied at the following turn-on
C25_OneHeatLossUpdatePerIdle ==
    [][(engine = "learning" /\ started) =>
          /\ self'.heat_loss_rate # self.heat_loss_rate =>
                /\ ~self.is_active_heating
                /\ self.heat_loss_tracking_active
                /\ self'.heat_loss_rate =
                      HeatLossBlend(self.heat_loss_rate,
                                    self'.peak_temp_observed - self'.current_temp,
                                    now' - self'.peak_temp_time)
                /\ \/ /\ ~self'.heat_loss_tracking_active
                      /\ now' - self'.peak_temp_time >= cfg.max_heat_loss_time * 60
                   \/ self'.is_active_heating
          /\ (~self.heat_loss_tracking_active /\ self'.heat_loss_tracking_active) =>
                (self.is_active_heating /\ ~self'.is_active_heating)
          /\ (~self.heat_loss_tracking_active /\ self'.is_active_heating) =>
                self'.heat_loss_rate = self.heat_loss_rate]_vars

C25_Witness ==
    /\ engine = "learning"
    /\ event = "sensor"
    /\ ~entry.is_active_heating
    /\ self.calls = <<"turn_on">>
    /\ Truthy(self.peak_temp_observed)
    /\ now - self.peak_temp_time >= cfg.max_heat_loss_time * 60
    /\ self.peak_temp_observed - self.current_temp >= MIN_DELTA_TEMP
    /\ ~self.heat_loss_tracking_active
    /\ self.heat_loss_rate =
          HeatLossBlend(DEFAULT_HEAT_LOSS_RATE,
                        self.peak_temp_observed - self.current_temp,
                        now - self.peak_temp_time)

\* C26: a heat-loss finalization (at the cap, where tracking is disarmed, or
\* before a turn-on with tracking armed) of a recorded peak changes
\* heat_loss_rate only if the time since the peak is at least 30 minutes and
\* peak_temp - current_temp is at least 0.2 degrees, and then sets it to
\* clamp(0.001, 0.5, 0.8*heat_loss_rate + 0.2*(delta/duration)); in all other
\* cases heat_loss_rate is unchanged
C26_HeatLossFinalization ==
    [][(/\ engine = "learning"
        /\ cfg.enable_learning
        /\ started
        /\ ~self.is_active_heating
        /\ self.heat_loss_tracking_active
        /\ self'.peak_temp_observed # None
        /\ self'.current_temp # None
        /\ \/ ~self'.heat_loss_tracking_active
           \/ self'.is_active_heating) =>
          self'.heat_loss_rate =
              IF /\ now' - self'.peak_temp_time >= MIN_LOSS_MINUTES * 60
                 /\ self'.peak_temp_observed - self'.current_temp >= MIN_DELTA_TEMP
              THEN HeatLossBlend(self.heat_loss_rate,
                                 self'.peak_temp_observed - self'.current_temp,
                                 now' - self'.peak_temp_time)
              ELSE self.heat_loss_rate]_vars

\* the penalty of C27 for an outdoor reading, in 1/10000
C27_Penalty(reading) ==
    Min(8000, (self.outside_ref_temp - reading) * cfg.weather_sensitivity)

\* the seconds of preheat needed under an outdoor reading
C27_SecondsNeeded(reading) ==
    seconds_needed(self, [Hass EXCEPT !.outside = reading])

\* C27: the adjusted rate is heat_up_rate when there is no outdoor reading
\* or the reading is not below outside_ref_temp, and otherwise heat_up_rate *
\* (1 - min(0.8, (outside_ref_temp - reading) * weather_sensitivity / 100));
\* it lies in [0.2 * heat_up_rate, heat_up_rate] and is positive, and of two
\* readings the colder never needs less preheat time
C27_AdjustedRate ==
    (engine = "learning" /\ started) =>
        /\ adjusted_rate(self, Hass) =
              IF outside = None \/ outside >= self.outside_ref_temp
              THEN self.heat_up_rate
              ELSE (self.heat_up_rate * (10000 - C27_Penalty(outside))) \div 10000
        /\ 5 * adjusted_rate(self, Hass) >= self.heat_up_rate
        /\ adjusted_rate(self, Hass) <= self.heat_up_rate
        /\ adjusted_rate(self, Hass) > 0
        /\ (self.current_temp # None /\ cfg.comfort_temp - self.current_temp > 0) =>
              \A colder, warmer \in WeatherReadings \ {None} :
                  colder <= warmer =>
                      C27_SecondsNeeded(colder) >= C27_SecondsNeeded(warmer)

C27_Witness ==
    /\ engine = "learning"
    /\ RanFully
    /\ sched = STATE_OFF
    /\ next_event # None
    /\ ~entry.preheat_latch
    /\ cfg.comfort_temp - self.current_temp > 0
    /\ self.heat_up_rate = 10000
    /\ outside = 0
    /\ self.outside_ref_temp = 1000
    /\ cfg.weather_sensitivity = 10
    /\ adjusted_rate(self, Hass) = 2000

\* C28: after start-up outside_ref_temp changes only in a step that ends a
\* heating cycle whose heat-up sample passes the filters (duration >=
\* min_burn_time, rise >= 0.2 degrees) while an outdoor reading is available,
\* and then becomes 0.8*outside_ref_temp + 0.2*outdoor_temp; a rejected
\* sample, a missing reading, a tick that ends no cycle or a preheat
\* computation leaves it unchanged
C28_OutsideRefFrame ==
    [][(engine = "learning" /\ started
          /\ self'.outside_ref_temp # self.outside_ref_temp) =>
          /\ cfg.enable_learning
          /\ self.is_active_heating /\ ~self'.is_active_heating
          /\ now' - self.last_on_time >= cfg.min_burn_time * 60
          /\ self'.current_temp - self.heat_start_temp >= MIN_DELTA_TEMP
          /\ self'.heat_up_rate =
                C23_Learned(self.heat_up_rate,
                            self'.current_temp - self.heat_start_temp,
                            now' - self.last_on_time)
          /\ outside # None
          /\ self'.outside_ref_temp =
                (self.outside_ref_temp * 8 + outside * 2) \div 10]_vars

C28_Witness ==
    /\ engine = "learning"
    /\ event = "sensor"
    /\ entry.is_active_heating
    /\ self.calls = <<"turn_off">>
    /\ now - self.last_on_time >= cfg.min_burn_time * 60
    /\ self.current_temp - self.heat_start_temp >= MIN_DELTA_TEMP
    /\ outside = 0
    /\ self.outside_ref_temp = (DEFAULT_OUTSIDE_REF * 8) \div 10

\* C29: a latch does not outlive its schedule slot: after any handler that
\* ran with the schedule ON preheat_latch is false, and a handler sets a
\* clear latch only by newly engaging preheat (schedule OFF, positive
\* deficit, inside the window before the next ON)
C29_LatchEndsWithSlot ==
    [][(engine = "learning" /\ started /\ cfg.schedule_entity_id) =>
          /\ sched' = STATE_ON => ~self'.preheat_latch
          /\ (~self.preheat_latch /\ self'.preheat_latch) =>
                (sched' = STATE_OFF /\ C15_Engages')]_vars

\* C30: an invocation that short-circuits (mode OFF or no known temperature)
\* does not resolve the target: target_temp, manual_mode, preheat_latch and
\* last_schedule_state stay as they were when the control logic was entered,
\* the preset stays as it was, and the only effect on the boiler is to leave
\* it off, with one turn_off if it was on
C30_ShortCircuitFrame ==
    [][(engine = "learning" /\ event' \in ControlEvents /\ ShortCircuited') =>
          /\ self'.target_temp = entry'.target_temp
          /\ self'.manual_mode = entry'.manual_mode
          /\ self'.preheat_latch = entry'.preheat_latch
          /\ self'.last_schedule_state = entry'.last_schedule_state
          /\ self'.preset_mode = self.preset_mode
          /\ ~self'.is_active_heating
          /\ self'.calls \in {<<>>, <<"turn_off">>}]_vars

C30_Witness ==
    /\ engine = "learning"
    /\ event = "schedule"
    /\ entry.hvac_mode = HVAC_OFF
    /\ entry.current_temp # None
    /\ sched = STATE_ON
    /\ self.last_schedule_state = STATE_OFF
    /\ self.preheat_latch
    /\ self.preset_mode = "preheat"
    /\ self.target_temp = cfg.comfort_temp

\* the time the next-fire estimator returns in the current state
C31_NextFire == calculate_next_fire_time(self, Hass).result

\* C31: while the boiler is idle, the schedule is not ON, preheat is enabled
\* and the schedule has a next ON, the estimator read for the attributes
\* returns a time that is not earlier than now, whatever current_temp is
C31_NextFireNotBeforeNow ==
    (/\ engine = "learning"
     /\ event = "attributes"
     /\ ~self.is_active_heating
     /\ sched # STATE_ON
     /\ cfg.enable_preheat
     /\ get_next_schedule_start(Hass) # None) =>
        C31_NextFire >= now

\* a control-loop invocation at this instant would engage preheat
C32_WouldEngage == run_control_logic(Enter(self), Hass).preheat_latch

\* C32: when the attributes are read, the estimator agrees with the preheat
\* scheduler: it returns now when the boiler is active or the schedule is ON,
\* otherwise the schedule's next ON (or nothing) when preheat is disabled,
\* and with preheat enabled, HEAT mode, a known temperature, the boiler idle,
\* the schedule OFF, no manual override and the latch clear it returns a time
\* <= now exactly when an invocation at that instant would engage preheat
C32_EstimatorAgreesWithScheduler ==
    (engine = "learning" /\ event = "attributes") =>
        IF self.is_active_heating \/ sched = STATE_ON
        THEN C31_NextFire = now
        ELSE IF ~cfg.enable_preheat
        THEN C31_NextFire = get_next_schedule_start(Hass)
        ELSE (/\ self.current_temp # None
              /\ self.hvac_mode = HVAC_HEAT
              /\ sched = STATE_OFF
              /\ ~self.manual_mode
              /\ ~self.preheat_latch) =>
                 ((C31_NextFire # None /\ C31_NextFire <= now) <=> C32_WouldEngage)

\* clamp(0, 1.0, 0.8 * overshoot + 0.2 * delta)
C33_Blend(overshoot, delta) ==
    Max(0, Min(SH_MAX_OVERSHOOT, (overshoot * 8 + delta * 2) \div 10))

\* C33: in the smart_heating engine with learning enabled, every off cycle
\* that is tracked ends with its overshoot evaluation: the step that ends the
\* tracking leaves overshoot = clamp(0, 1.0, 0.8 * overshoot + 0.2 * (peak -
\* temp_at_off)); and overshoot stays within [0, 1.0]
C33_OvershootEvaluatedOnce ==
    [][engine = "smart_heating" =>
          /\ (/\ cfg.enable_learning
              /\ self.peak_tracking_start_temp # None
              /\ self'.peak_tracking_start_temp = None) =>
                 self'.overshoot_temp =
                     C33_Blend(self.overshoot_temp,
                               self'.peak_temp_observed
                                  - self.peak_tracking_start_temp)
          /\ self'.overshoot_temp \in 0..SH_MAX_OVERSHOOT]_vars

\* C34: is_active_heating is set before the command is dispatched: in every
\* state another handler can observe, a suspended dispatch included, it is
\* true exactly if the command issued last was turn_on
C34_FlagMatchesLastCommand ==
    (engine = "learning" /\ LastIssued # "none") =>
        (self.is_active_heating <=> LastIssued = "turn_on")

C34_Witness ==
    /\ engine = "learning"
    /\ event = "sensor"
    /\ prev.is_active_heating
    /\ Len(pending) = 1
    /\ pending[1].kind = "turn_off"
    /\ self.calls = <<"turn_off">>
    /\ ~self.is_active_heating
    /\ self.last_off_time = None

\* the heat-up rate learned from the cycle that continuation k ended
C35_RateOfEndedCycle(k) ==
    learn_heat_up_rate([Enter(self) EXCEPT
                           !.last_on_time = k.last_on_time,
                           !.heat_start_temp = k.heat_start_temp,
                           !.current_temp = k.current_temp], Hass).heat_up_rate

\* C35: when the only suspended invocation is resumed after its dispatch of
\* turn_off, whatever handlers ran in between, its heat-up learning uses the
\* heat-cycle start time, start temperature and current temperature of the
\* cycle it ended, and it does not arm off-cycle tracking if the boiler has
\* become active again
C35_ResumedLearningUnaffected ==
    [][(event' = "resume_turn_off" /\ Len(pending) = 1) =>
          /\ self'.heat_up_rate = C35_RateOfEndedCycle(pending[1])
          /\ self.is_active_heating =>
                /\ self'.heat_loss_tracking_active = self.heat_loss_tracking_active
                /\ self'.peak_temp_observed = self.peak_temp_observed]_vars

\* C36: every handler issues at most one service call, so never both turn_on
\* and turn_off; async_set_hvac_mode(OFF) with the boiler active issues
\* exactly one turn_off, although it forces the boiler off and then runs the
\* control logic
C36_AtMostOneCommand ==
    engine = "learning" =>
        /\ Len(self.calls) <= 1
        /\ (/\ event = "set_hvac_mode"
            /\ self.hvac_mode = HVAC_OFF
            /\ prev.is_active_heating) => self.calls = <<"turn_off">>

C36_Witness ==
    /\ engine = "learning"
    /\ event = "set_hvac_mode"
    /\ self.hvac_mode = HVAC_OFF
    /\ prev.hvac_mode = HVAC_HEAT
    /\ prev.is_active_heating
    /\ ~entry.is_active_heating
    /\ ~self.is_active_heating
    /\ self.calls = <<"turn_off">>

\* the invocation of the last step found the boiler active for longer than
\* max_on_time and below the switch-off point, and turned it off
C37_WatchdogForcedOff ==
    /\ engine = "learning"
    /\ RanFully
    /\ entry.is_active_heating
    /\ ~self.is_active_heating
    /\ self.current_temp < off_point(self)
    /\ now - self.last_on_time > cfg.max_on_time

\* C37: after the watchdog has forced the boiler off, an invocation that
\* finds current_temp, target_temp and the mode as they were does not turn
\* the boiler on again
C37_NoResumeAfterWatchdog ==
    [][(/\ C37_WatchdogForcedOff
        /\ event' \in ControlEvents
        /\ self'.current_temp = self.current_temp
        /\ self'.target_temp = self.target_temp
        /\ self'.hvac_mode = self.hvac_mode) =>
          ~self'.is_active_heating]_vars

\* C38: with no preset command from the user, after an invocation that ran
\* the target resolver and boiler control the preset is "preheat" only if
\* preheat determines the target (the latch is set, there is no manual
\* override, the schedule is not ON and target_temp is the comfort
\* temperature), and "none" otherwise
C38_PresetShowsPreheat ==
    (engine = "learning" /\ RanFully) =>
        /\ self.preset_mode \in {"none", "preheat"}
        /\ self.preset_mode = "preheat" =>
              /\ self.preheat_latch
              /\ ~self.manual_mode
              /\ sched # STATE_ON
              /\ self.target_temp = cfg.comfort_temp

====
